---- MODULE Spec2Model ----
(***************************************************************************)
(* taxana: FIFO lot ledger, swap classification and tax aggregation of     *)
(* calculateTaxes (src/lib/services/tax-calculator.ts).                    *)
(*                                                                         *)
(* The program computes with JavaScript numbers.  They are modelled as     *)
(* IEEE-754 binary64 values: a value is a record [neg, m, e] standing for  *)
(* (-1)^neg * m * 2^e, where m is a 53-bit integer kept as four 15-bit     *)
(* limbs (least significant first) and zero is FZero.  Every arithmetic    *)
(* operator rounds to nearest, ties to even, as the language does.         *)
(* Infinities, NaN and subnormals lie outside the magnitudes of the model. *)
(* -0 is not told apart from 0.                                           *)
(***************************************************************************)
EXTENDS Integers, Sequences, FiniteSets, TLC

VARIABLES pc, transactions, rateResponses, usdIdrRate, prices,
          sortedTransactions, idx,
          tokenLots, results, history, totals, summary, previous,
          cache, lookups, world, batch, helius, pairsCall,
          transactionsTable

(* pc                 where calculateTaxes stands: start, prices, sort, loop, done
   transactions       the argument, rows of table transactions in any order
   rateResponses      the responses to the requests getUsdToIdrRate made
   usdIdrRate, prices what getUsdToIdrRate and getTokenPrices answered
   sortedTransactions the sorted copy, idx the number of its records handled
   tokenLots          the FIFO lots per token
   results, totals    the results pushed and the running totals
   summary            the returned TaxSummary
   history            after each record: the ledger it left and the value of
                      remainingToSell when its loop ended (None for a buy)
   previous           what an earlier call on the same list was answered and
                      returned (None during the first call)
   cache              the rows of table token_prices, in the order of insertion
   lookups            the calls of getTokenPrice, in the order they were
                      made: what each waits for, its arguments, the requests
                      to the database and the providers that were answered,
                      and what it returned
   world              what lies outside the program: the API key of the
                      environment, and how the exchange-rate service, the
                      price providers and the database answer
   batch              a call of getTokenPrices: the addresses given, the lookups
                      it started and the map it fills
   helius             a call of fetchTransactions: the pages requested of the
                      provider of swaps and the transactions collected
   transactionsTable  the rows of table transactions, each named by its
                      signature *)

calcVars == <<pc, transactions, rateResponses, usdIdrRate, prices,
              sortedTransactions, idx,
              tokenLots, results, history, totals, summary>>
serviceVars == <<cache, lookups, world>>
routerVars == <<batch, helius, pairsCall, transactionsTable>>
vars == <<calcVars, previous, serviceVars, routerVars>>

----------------------------------------------------------------------------
(* JavaScript number arithmetic *)

BASE == 2^15
LimbBits == 15
Precision == 53

(* natural numbers of any size: sequences of 15-bit limbs, least significant
   first, no leading zero limb; <<>> is 0 *)

Limb(a, i) == IF i <= Len(a) THEN a[i] ELSE 0

RECURSIVE Strip(_)
Strip(a) ==
  IF Len(a) = 0 \/ a[Len(a)] # 0 THEN a ELSE Strip(SubSeq(a, 1, Len(a) - 1))

RECURSIVE BigOfInt(_)
BigOfInt(n) == IF n = 0 THEN <<>> ELSE <<n % BASE>> \o BigOfInt(n \div BASE)

RECURSIVE AddFrom(_, _, _, _)
AddFrom(a, b, i, c) ==
  IF i > Len(a) /\ i > Len(b)
  THEN (IF c = 0 THEN <<>> ELSE <<c>>)
  ELSE <<(Limb(a, i) + Limb(b, i) + c) % BASE>>
         \o AddFrom(a, b, i + 1, (Limb(a, i) + Limb(b, i) + c) \div BASE)

BigAdd(a, b) == AddFrom(a, b, 1, 0)

RECURSIVE SubFrom(_, _, _, _)
SubFrom(a, b, i, c) ==
  IF i > Len(a)
  THEN <<>>
  ELSE IF a[i] - Limb(b, i) - c < 0
       THEN <<a[i] - Limb(b, i) - c + BASE>> \o SubFrom(a, b, i + 1, 1)
       ELSE <<a[i] - Limb(b, i) - c>> \o SubFrom(a, b, i + 1, 0)

\* a - b for a >= b
BigSub(a, b) == Strip(SubFrom(a, b, 1, 0))

RECURSIVE CmpFrom(_, _, _)
CmpFrom(a, b, i) ==
  IF i = 0 THEN 0
  ELSE IF a[i] < b[i] THEN -1
  ELSE IF a[i] > b[i] THEN 1
  ELSE CmpFrom(a, b, i - 1)

\* -1, 0, 1 as a < b, a = b, a > b
BigCmp(a, b) ==
  IF Len(a) < Len(b) THEN -1
  ELSE IF Len(a) > Len(b) THEN 1
  ELSE CmpFrom(a, b, Len(a))

RECURSIVE MulSmallFrom(_, _, _, _)
MulSmallFrom(a, k, i, c) ==
  IF i > Len(a)
  THEN (IF c = 0 THEN <<>> ELSE <<c>>)
  ELSE <<(a[i] * k + c) % BASE>> \o MulSmallFrom(a, k, i + 1, (a[i] * k + c) \div BASE)

BigMulSmall(a, k) == IF k = 0 THEN <<>> ELSE MulSmallFrom(a, k, 1, 0)

ShiftLimbs(a, n) == IF Len(a) = 0 THEN <<>> ELSE [i \in 1..n |-> 0] \o a

RECURSIVE MulFrom(_, _, _)
MulFrom(a, b, i) ==
  IF i > Len(b) THEN <<>>
  ELSE BigAdd(ShiftLimbs(BigMulSmall(a, b[i]), i - 1), MulFrom(a, b, i + 1))

BigMul(a, b) == MulFrom(a, b, 1)

\* a * 2^n
BigShl(a, n) == ShiftLimbs(BigMulSmall(a, 2^(n % LimbBits)), n \div LimbBits)

RECURSIVE DivSmallFrom(_, _, _, _)
DivSmallFrom(a, k, i, r) ==
  IF i = 0 THEN <<>>
  ELSE DivSmallFrom(a, k, i - 1, (r * BASE + a[i]) % k) \o <<(r * BASE + a[i]) \div k>>

DropLimbs(a, d) == IF d >= Len(a) THEN <<>> ELSE SubSeq(a, d + 1, Len(a))

DivSmall(a, k) == Strip(DivSmallFrom(a, k, Len(a), 0))

\* a \div 2^n
BigShr(a, n) == DivSmall(DropLimbs(a, n \div LimbBits), 2^(n % LimbBits))

\* TRUE iff one of the n low bits of a is set
LowBitsSet(a, n) ==
  \/ \E i \in 1..(n \div LimbBits) : Limb(a, i) # 0
  \/ Limb(a, n \div LimbBits + 1) % (2^(n % LimbBits)) # 0

RECURSIVE IntBitLen(_)
IntBitLen(n) == IF n = 0 THEN 0 ELSE 1 + IntBitLen(n \div 2)

BitLen(a) == IF Len(a) = 0 THEN 0 ELSE LimbBits * (Len(a) - 1) + IntBitLen(a[Len(a)])

IsOdd(a) == Limb(a, 1) % 2 = 1

(* binary64 values *)

FZero == [neg |-> FALSE, m |-> <<>>, e |-> 0]

\* a rounded mantissa of 54 bits is 2^53: renormalise
Renormalise(neg, r, E) ==
  IF BitLen(r) > Precision
  THEN [neg |-> neg, m |-> BigShr(r, 1), e |-> E + 1]
  ELSE [neg |-> neg, m |-> r, e |-> E]

\* q rounded up when the cut-off part is above one half, or is one half and q is odd
RoundedMantissa(q, half, sticky) ==
  IF half /\ (sticky \/ IsOdd(q)) THEN BigAdd(q, <<1>>) ELSE q

\* q2 holds the 53 kept bits and, lowest, the first cut-off bit
RoundCut(neg, q2, sticky, E) ==
  Renormalise(neg, RoundedMantissa(BigShr(q2, 1), IsOdd(q2), sticky), E)

RoundBits(neg, M, E, L) ==
  IF L = 0 THEN FZero
  ELSE IF L <= Precision
  THEN [neg |-> neg, m |-> BigShl(M, Precision - L), e |-> E - (Precision - L)]
  ELSE RoundCut(neg, BigShr(M, L - Precision - 1), LowBitsSet(M, L - Precision - 1),
                E + (L - Precision))

\* (-1)^neg * M * 2^E rounded to nearest, ties to even, to 53 significant bits
RoundNearestEven(neg, M, E) == RoundBits(neg, M, E, BitLen(M))

FromInt(n) == RoundNearestEven(n < 0, BigOfInt(IF n < 0 THEN -n ELSE n), 0)

FNeg(a) == IF a.m = <<>> THEN a ELSE [a EXCEPT !.neg = ~a.neg]

\* Math.abs
FAbs(a) == [a EXCEPT !.neg = FALSE]

AddAligned(na, Ma, nb, Mb, e) ==
  RoundNearestEven(IF na = nb \/ BigCmp(Ma, Mb) >= 0 THEN na ELSE nb,
                   IF na = nb THEN BigAdd(Ma, Mb)
                   ELSE IF BigCmp(Ma, Mb) >= 0 THEN BigSub(Ma, Mb) ELSE BigSub(Mb, Ma),
                   e)

AddAt(a, b, e) == AddAligned(a.neg, BigShl(a.m, a.e - e), b.neg, BigShl(b.m, b.e - e), e)

\* a + b
FAdd(a, b) ==
  IF a.m = <<>> THEN b
  ELSE IF b.m = <<>> THEN a
  ELSE AddAt(a, b, IF a.e < b.e THEN a.e ELSE b.e)

\* a - b
FSub(a, b) == FAdd(a, FNeg(b))

\* a * b
FMul(a, b) ==
  IF a.m = <<>> \/ b.m = <<>> THEN FZero
  ELSE RoundNearestEven(a.neg # b.neg, BigMul(a.m, b.m), a.e + b.e)

\* 15 quotient bits of the restoring division of rh * 2^30 + rl by
\* dh * 2^30 + dl, the remainder being below the divisor
RECURSIVE DivBits(_, _, _, _, _, _)
DivBits(rh, rl, dh, dl, n, q) ==
  IF n = 0 THEN [q |-> q, rh |-> rh, rl |-> rl]
  ELSE IF 2 * rh + (rl \div 2^29) > dh
          \/ (2 * rh + (rl \div 2^29) = dh /\ 2 * (rl % 2^29) >= dl)
       THEN IF 2 * (rl % 2^29) >= dl
            THEN DivBits(2 * rh + (rl \div 2^29) - dh, 2 * (rl % 2^29) - dl,
                         dh, dl, n - 1, 2 * q + 1)
            ELSE DivBits(2 * rh + (rl \div 2^29) - dh - 1, 2 * (rl % 2^29) - dl + 2^30,
                         dh, dl, n - 1, 2 * q + 1)
       ELSE DivBits(2 * rh + (rl \div 2^29), 2 * (rl % 2^29), dh, dl, n - 1, 2 * q)

PutLimb(rest, q) == [q |-> rest.q \o <<q>>, sticky |-> rest.sticky]

RECURSIVE DivLimbs(_, _, _, _, _)
RECURSIVE DivNext(_, _, _, _)
DivNext(top, dh, dl, k) == PutLimb(DivLimbs(top.rh, top.rl, dh, dl, k - 1), top.q)

\* k limbs of quotient, and whether a remainder is left
DivLimbs(rh, rl, dh, dl, k) ==
  IF k = 0 THEN [q |-> <<>>, sticky |-> (rh # 0 \/ rl # 0)]
  ELSE DivNext(DivBits(rh, rl, dh, dl, LimbBits, 0), dh, dl, k)

Lo30(m) == Limb(m, 1) + Limb(m, 2) * BASE
Hi30(m) == Limb(m, 3) + Limb(m, 4) * BASE

\* the quotient with a lowest bit that tells whether the division left a remainder
WithSticky(Q, sticky) == BigAdd(BigAdd(Q, Q), IF sticky THEN <<1>> ELSE <<>>)

DivQuotient(neg, lead, qs, E) ==
  RoundNearestEven(neg, WithSticky(Strip(qs.q \o <<lead>>), qs.sticky), E)

DivRemainder(neg, lead, r, d, E) ==
  DivQuotient(neg, lead, DivLimbs(Hi30(r), Lo30(r), Hi30(d), Lo30(d), 4), E)

\* a / b, b not zero
FDiv(a, b) ==
  IF a.m = <<>> THEN FZero
  ELSE IF BigCmp(a.m, b.m) >= 0
       THEN DivRemainder(a.neg # b.neg, 1, BigSub(a.m, b.m), b.m,
                         a.e - b.e - 4 * LimbBits - 1)
       ELSE DivRemainder(a.neg # b.neg, 0, a.m, b.m, a.e - b.e - 4 * LimbBits - 1)

CmpMagnitude(a, b) ==
  IF a.e = b.e THEN BigCmp(a.m, b.m) ELSE IF a.e < b.e THEN -1 ELSE 1

\* -1, 0, 1 as a < b, a = b, a > b
FCmp(a, b) ==
  IF a.m = <<>> /\ b.m = <<>> THEN 0
  ELSE IF a.m = <<>> THEN (IF b.neg THEN 1 ELSE -1)
  ELSE IF b.m = <<>> THEN (IF a.neg THEN -1 ELSE 1)
  ELSE IF a.neg # b.neg THEN (IF a.neg THEN -1 ELSE 1)
  ELSE IF a.neg THEN -CmpMagnitude(a, b) ELSE CmpMagnitude(a, b)

FLe(a, b) == FCmp(a, b) <= 0
FGt(a, b) == FCmp(a, b) > 0

----------------------------------------------------------------------------
(* Inputs *)

\* longest input list of a run
MaxTx == 4

\* null in a text column, and null where a number or an object is expected
Null == "null"
None == [none |-> TRUE]

RECURSIVE BigOfGroups(_, _)
\* the natural number written as groups of four decimal digits, acc before them
BigOfGroups(groups, acc) ==
  IF Len(groups) = 0 THEN acc
  ELSE BigOfGroups(Tail(groups), BigAdd(BigMulSmall(acc, 10000), BigOfInt(groups[1])))

\* a decimal(20,8) column value, as the string the database driver returns:
\* the digits n with the point s places from the right
Dec(n, s) == [neg |-> n < 0, n |-> BigOfInt(IF n < 0 THEN -n ELSE n), s |-> s]

\* the same for a string of more digits, written in groups of four digits
DecGroups(groups, s) == [neg |-> FALSE, n |-> BigOfGroups(groups, <<>>), s |-> s]

RECURSIVE DivPow10(_, _)
\* a \div 10^s
DivPow10(a, s) == IF s = 0 THEN a ELSE DivPow10(DivSmall(a, 10), s - 1)

\* q = scaled \div 10^s rounded with the remainder of the division as sticky bit
NumberRounded(neg, scaled, q, s) ==
  RoundNearestEven(neg, WithSticky(q, BigCmp(BigMul(q, BigOfInt(10^s)), scaled) # 0),
                   -(6 * LimbBits) - 1)

\* Number(text) of a decimal string: the binary64 value nearest to n / 10^s
Number(d) ==
  NumberRounded(d.neg, BigShl(d.n, 6 * LimbBits),
                DivPow10(BigShl(d.n, 6 * LimbBits), d.s), d.s)

\* Number(x) || 0, with Number(null) = 0
NumberOrZero(d) == IF d = None THEN FZero ELSE Number(d)

USDC == "EPjFWdd5AufqSSqeM2qN1xzybapC8G4wEGGkZwyTDt1v"
USDT == "Es9vMFrzaCERmJfrF4H2FYD4KCoNkY11McCe8BenwNYB"
solToken == "So11111111111111111111111111111111111111112"
stableTokens == {USDC, USDT}
TKA == "TokenA"
TKB == "TokenB"
TKC == "TokenC"

Tx(sig, ts, ft, fa, fs, tt, ta, tsym, dex) ==
  [signature |-> sig, timestamp |-> ts,
   fromToken |-> ft, fromAmount |-> fa, fromSymbol |-> fs,
   toToken |-> tt, toAmount |-> ta, toSymbol |-> tsym, dex |-> dex]

(* rows of table transactions an input list is drawn from *)

\* two purchases of one token and sales of it
FifoPool ==
  { Tx("s1", 1, USDC, Dec(1000000, 0), "USDC", TKA, Dec(10, 0), "TKA", "jupiter"),
    Tx("s2", 2, USDC, Dec(600000, 0), "USDC", TKA, Dec(5, 0), "TKA", "raydium"),
    Tx("s3", 3, TKA, Dec(8, 0), "TKA", USDC, Dec(1200000, 0), "USDC", "orca"),
    Tx("s4", 4, TKA, Dec(20, 0), "TKA", solToken, Dec(30, 0), "SOL", Null),
    Tx("s8", 7, TKA, Dec(2, 0), "TKA", USDC, Dec(300000, 0), "USDC", "orca") }

\* a purchase, a swap between two tokens, sales, and a swap between base tokens
SwapPool ==
  { Tx("s1", 1, USDC, Dec(1000000, 0), "USDC", TKA, Dec(10, 0), "TKA", "jupiter"),
    Tx("s3", 3, TKA, Dec(8, 0), "TKA", USDC, Dec(1200000, 0), "USDC", "orca"),
    Tx("s5", 3, TKA, Dec(1, 1), "TKA", TKB, Dec(3, 1), Null, "jupiter"),
    Tx("s6", 5, TKB, Dec(1, 1), "TKB", USDT, Dec(5, 0), "USDT", "jupiter"),
    Tx("s7", 6, solToken, Dec(2, 0), "SOL", USDC, Dec(300, 0), "USDC", "orca") }

\* purchases of very different sizes and a sale of a little more than all of them
LargePool ==
  { Tx("g1", 1, USDC, Dec(1, 0), "USDC", TKA, Dec(1000, 8), "TKA", "jupiter"),
    Tx("g2", 2, USDC, Dec(2, 0), "USDC", TKA,
       DecGroups(<<1000, 0, 0, 0, 1526>>, 8), "TKA", "jupiter"),
    Tx("g3", 3, USDC, Dec(4, 0), "USDC", TKA, Dec(100, 8), "TKA", "jupiter"),
    Tx("g4", 4, TKA, DecGroups(<<1000, 0, 0, 0, 3052>>, 8), "TKA",
       USDC, Dec(7, 0), "USDC", "jupiter") }

\* a purchase and two sales that together dispose of exactly what was bought
DustPool ==
  { Tx("d1", 1, USDC, Dec(900, 0), "USDC", TKA, Dec(9, 1), "TKA", "jupiter"),
    Tx("d2", 2, TKA, Dec(3, 1), "TKA", USDC, Dec(45000, 0), "USDC", "jupiter"),
    Tx("d3", 3, TKA, Dec(6, 1), "TKA", USDC, Dec(90000, 0), "USDC", "jupiter") }

Pools == {FifoPool, SwapPool, LargePool, DustPool}

\* four records over six tokens, one more than a batch of getTokenPrices
WidePool ==
  { Tx("x1", 1, USDC, Dec(100, 0), "USDC", TKA, Dec(10, 0), "TKA", "jupiter"),
    Tx("x2", 2, TKA, Dec(1, 0), "TKA", TKB, Dec(3, 0), "TKB", "jupiter"),
    Tx("x3", 3, solToken, Dec(2, 0), "SOL", USDT, Dec(300, 0), "USDT", "orca"),
    Tx("x4", 4, TKC, Dec(1, 0), "TKC", USDC, Dec(5, 0), "USDC", "raydium") }

RECURSIVE ListsOver(_, _)
\* the lists of at most n records of S, no record twice (signature is unique)
ListsOver(S, n) ==
  IF n = 0 THEN {<<>>}
  ELSE {<<>>} \cup
       UNION { { <<r>> \o l : l \in ListsOver(S \ {r}, n - 1) } : r \in S }

\* the input lists of the model
InputLists == UNION { ListsOver(P, MaxTx) : P \in Pools }

\* the lists of all records of WidePool: each names six tokens
WideLists == {list \in ListsOver(WidePool, MaxTx) : Len(list) = Cardinality(WidePool)}

\* the lists that are also run with an empty table
MaxShort == 2
ShortLists == UNION { ListsOver(P, MaxShort) : P \in Pools }

\* a purchase of nothing that was paid for, a purchase, a sale and a swap
ZeroPool ==
  { Tx("z1", 1, USDC, Dec(100, 0), "USDC", TKA, Dec(0, 0), "TKA", "jupiter"),
    Tx("z2", 2, USDC, Dec(1000000, 0), "USDC", TKA, Dec(10, 0), "TKA", "jupiter"),
    Tx("z3", 3, TKA, Dec(4, 0), "TKA", USDC, Dec(600000, 0), "USDC", "orca"),
    Tx("z4", 4, TKA, Dec(1, 0), "TKA", TKB, Dec(3, 0), "TKB", "jupiter") }

\* a purchase of a negative amount, a purchase, a sale and a swap
NegativePool ==
  { Tx("n1", 1, USDC, Dec(500000, 0), "USDC", TKA, Dec(-5, 0), "TKA", "jupiter"),
    Tx("n2", 2, USDC, Dec(1000000, 0), "USDC", TKA, Dec(10, 0), "TKA", "jupiter"),
    Tx("n3", 3, TKA, Dec(4, 0), "TKA", USDC, Dec(600000, 0), "USDC", "orca"),
    Tx("n4", 4, TKA, Dec(1, 0), "TKA", TKB, Dec(3, 0), "TKB", "jupiter") }

\* input lists with amounts of zero and below
\* two purchases made at the same time at different prices, and a sale and a
\* swap made at the same later time
TiePool ==
  { Tx("e1", 1, USDC, Dec(1000000, 0), "USDC", TKA, Dec(10, 0), "TKA", "jupiter"),
    Tx("e2", 1, USDC, Dec(1500000, 0), "USDC", TKA, Dec(10, 0), "TKA", "jupiter"),
    Tx("e3", 2, TKA, Dec(4, 0), "TKA", USDC, Dec(600000, 0), "USDC", "orca"),
    Tx("e4", 2, TKA, Dec(1, 0), "TKA", TKB, Dec(3, 0), "TKB", "jupiter") }

TieLists == ListsOver(TiePool, MaxTx)

EdgeLists == ListsOver(ZeroPool, MaxTx) \cup ListsOver(NegativePool, MaxTx)

\* what a request to a provider comes to: the fetch rejects, the status is
\* not OK, the status is OK and response.json() rejects, or a body arrives
\* that carries the value given (None: none in it)
Failed == [kind |-> "error"]
NotOk == [kind |-> "status"]
Unreadable == [kind |-> "unreadable"]
Body(value) == [kind |-> "ok", value |-> value]

\* response.ok of a response that came in
StatusOk(response) == response.kind \in {"ok", "unreadable"}

\* the responses to a request for the exchange rates: the body carries no
\* rate, a rate of 0, or a rate
RateResponses ==
  {Failed, NotOk, Unreadable, Body(None), Body(Dec(0, 0)), Body(Dec(162505, 1))}

\* x || y takes y for a number x that is missing or 0
IsTruthy(d) == d # None /\ d.n # <<>>

\* a rate of 0 where the request gave none
RateOrZero(response) ==
  IF response.kind = "ok" /\ response.value # None THEN Number(response.value)
  ELSE FZero

\* getUsdToIdrRate on the response: data.rates?.IDR || 15500, and 15500 after
\* a caught error and on a status that is not OK
UsdToIdrRate(response) ==
  IF response.kind = "ok" /\ IsTruthy(response.value) THEN Number(response.value)
  ELSE FromInt(15500)

\* x || '' and x || 'unknown'
OrElse(x, dflt) == IF x = Null \/ x = "" THEN dflt ELSE x

\* the tokens a provider may not know while it knows the others
Unpriceable == {TKA, TKB}

\* the price the providers have for a token, as the decimal of the body
KnownPrice(token) ==
  IF token = USDC \/ token = USDT THEN Dec(1, 0)
  ELSE IF token = solToken THEN Dec(100, 0)
  ELSE IF token = TKA THEN Dec(150000, 0)
  ELSE Dec(25, 1)

\* the tokens the primary provider has a price for; the secondary provider
\* has one for every token
BirdeyeKnows(token) == token \in {USDC, USDT, solToken}

\* the price the primary provider has for a token: for SOL one of more
\* places than the eight the table keeps, 100.000000004
BirdeyePrice(token) ==
  IF token = solToken THEN DecGroups(<<1000, 0, 4>>, 9) ELSE KnownPrice(token)

\* the sets of tokens of T that may come back without a price: none, one
\* token the providers do not know, or all of them (no provider answers)
Gaps(T) == {{}, T} \cup {{t} : t \in T \cap Unpriceable}

\* BIRDEYE_API_KEY of the environment: not set, empty, the placeholder of
\* the example configuration, or a key
Placeholder == "your_birdeye_api_key_here"
ApiKeys == {Null, "", Placeholder, "key"}

\* the outside during a run: the key, the response of the exchange-rate
\* service, the tokens no provider has a price for (their requests come back
\* with a status that is not OK), whether the database answers ("up") or
\* every statement fails ("down"), and the time at which a second run asks
\* for its prices (the first does at time 0)
World(apiKey, rate, unpriced, database) ==
  [free |-> FALSE, apiKey |-> apiKey, rate |-> rate, unpriced |-> unpriced,
   database |-> database, later |-> 3 * 60 * 60 * 1000]

\* the outside w with a second run a millisecond later than that
AfterWindow(w) == [w EXCEPT !.later = @ + 1]

\* an outside that may answer every request in every way
AnyWorld(apiKey) ==
  [free |-> TRUE, apiKey |-> apiKey, rate |-> NotOk, unpriced |-> {},
   database |-> "up", later |-> 0]

\* the responses of the exchange-rate service the long lists are run with
MainRates == {Failed, Body(Dec(162505, 1))}

\* the outsides every list over tokens T is run in, a table in place that
\* holds the prices of its major tokens: a response of the exchange-rate
\* service with all prices there, and the gaps in the prices
RunWorlds(T) ==
  {World(Null, rate, {}, "up") : rate \in MainRates}
    \cup {World(Null, Body(Dec(162505, 1)), N, "up") : N \in Gaps(T)}

\* the outsides a short list over tokens T is run in, the table empty: the
\* other responses of the exchange-rate service, the gaps in the prices with
\* a key for the primary provider and without one, and a database that is
\* down
ColdWorlds(T) ==
  {World(Null, rate, {}, "up") : rate \in RateResponses \ MainRates}
    \cup {World(apiKey, Body(Dec(162505, 1)), N, "up") :
            apiKey \in {Null, "key"}, N \in Gaps(T)}
    \cup {World(apiKey, Body(Dec(162505, 1)), {}, "down") : apiKey \in {Null, "key"}}

\* the outsides of the runs over special lists: a key and every price, a
\* database that is down, and no key
EdgeWorlds ==
  {World("key", Body(Dec(162505, 1)), {}, "up"),
   World("key", Body(Dec(162505, 1)), {}, "down"),
   World(Null, NotOk, {}, "up")}

----------------------------------------------------------------------------
(* The price service: getTokenPrice over table token_prices *)

mSOL == "mSoLzYCxHdYgdzU16g5QSh3i5K3z3KZK7ytfqcJm7So"
BONK == "DezXAZ8z7PnrnRJjz3wXBoRgixCa6xjnB7YaB1pPB263"
ETH == "7vfCXTUXx5WJV5JADk17DUJ4ksgau7utNKj4b963voxs"
JUP == "JUPyiwrYJFskUPiHa7hkeR8VUtAeFoSYbKedZNsDvCN"

MAJOR_TOKENS == {solToken, USDC, USDT, mSOL, BONK, ETH, JUP}

\* milliseconds
CACHE_DURATION_MS == 3 * 60 * 60 * 1000

\* how many calls of getTokenPrice there are, one after another or at once
MaxLookups == 2

\* the tokens asked for (one major, one not) and the times asked for: the
\* second is at the edge of the window around the first, the third just
\* outside it
LookupTokens == {BONK, solToken, TKA}
LookupTimes == {0, CACHE_DURATION_MS, CACHE_DURATION_MS + 1}
\* the times a token is looked up at: the edges of the window for one major
\* token, one time inside them for another, one time for a token that never
\* reaches the table
TimesOf(token) ==
  IF token = BONK THEN LookupTimes
  ELSE IF token = solToken THEN {CACHE_DURATION_MS}
  ELSE {0}

\* the price in the body of a provider's response, as the decimal it is
\* written with; None when the body carries no price or a price of 0
BirdeyeAnswers(token) ==
  {None} \cup (IF token = BONK THEN {Dec(12346, 9)} ELSE {Dec(150000, 0)})

\* one trading pair of a DexScreener body: liquidity is None when the pair
\* reports none, priceUsd is a decimal string, None when the pair has none
Pair(liquidity, priceUsd) == [liquidity |-> liquidity, priceUsd |-> priceUsd]
Liquidity(usd) == [usd |-> usd]

\* two pairs of the same liquidity, a pair that reports no liquidity, a small
\* pair, and the most liquid pair, which carries no price
PairPool ==
  { Pair(Liquidity(50000), Dec(1234, 8)),
    Pair(Liquidity(50000), Dec(13, 6)),
    Pair(None, Dec(2, 5)),
    Pair(Liquidity(900), Dec(11, 6)),
    Pair(Liquidity(120000), None) }

\* the most pairs of one body
MaxPairs == 3

\* data of a DexScreener body: None when it has pairs: null
Data(pairs) == [pairs |-> pairs]
PairData == {None} \cup {Data(pairs) : pairs \in ListsOver(PairPool, MaxPairs)}

\* (pair.liquidity?.usd || 0)
LiquidityOrZero(pair) == IF pair.liquidity = None THEN 0 ELSE pair.liquidity.usd

RECURSIVE InsertByLiquidity(_, _)
\* pair put behind every pair whose liquidity is not smaller than its own
InsertByLiquidity(sorted, pair) ==
  IF Len(sorted) = 0 THEN <<pair>>
  ELSE IF LiquidityOrZero(pair) - LiquidityOrZero(sorted[Len(sorted)]) <= 0
       THEN Append(sorted, pair)
       ELSE Append(InsertByLiquidity(SubSeq(sorted, 1, Len(sorted) - 1), pair),
                   sorted[Len(sorted)])

\* the pairs in the order they came in (no sort)
AsListed(pairs) == pairs

RECURSIVE SortByLiquidity(_)
\* data.pairs.sort((a, b) => (b.liquidity?.usd || 0) - (a.liquidity?.usd || 0)):
\* a stable sort, the most liquid pair first
SortByLiquidity(pairs) ==
  IF Len(pairs) = 0 THEN <<>>
  ELSE InsertByLiquidity(SortByLiquidity(SubSeq(pairs, 1, Len(pairs) - 1)),
                         pairs[Len(pairs)])

\* parseFloat(pair.priceUsd) || null, as the decimal the price is written with
PriceOrNull(pair) ==
  IF pair.priceUsd = None THEN None
  ELSE IF pair.priceUsd.n = <<>> THEN None
  ELSE pair.priceUsd

\* what fetchDexScreenerPrice takes from a body
BestPairPrice(data) ==
  IF data = None THEN None
  ELSE IF Len(data.pairs) > 0 THEN PriceOrNull(SortByLiquidity(data.pairs)[1])
  ELSE None

\* the bodies met by the calls of getTokenPrice
DexScreenerBodies(token) ==
  {None} \cup
  (IF token = BONK
   THEN {Data(<<Pair(Liquidity(900), Dec(11, 6)),
                 Pair(Liquidity(50000), Dec(1234, 8)),
                 Pair(None, Dec(2, 5))>>)}
   ELSE {Data(<<Pair(Liquidity(10), Dec(1499995, 1))>>)})

DexScreenerAnswers(token) ==
  {BestPairPrice(data) : data \in DexScreenerBodies(token)}

BirdeyeResponses(token) ==
  {Failed, NotOk, Unreadable} \cup {Body(value) : value \in BirdeyeAnswers(token)}

DexScreenerResponses(token) ==
  {Failed, NotOk, Unreadable} \cup {Body(value) : value \in DexScreenerAnswers(token)}

\* what an awaited function gives when it rejects
Thrown == [thrown |-> TRUE]

\* a fetch function without its try and catch: a rejected request or body
\* rejects it
PriceUncaught(response) ==
  IF response.kind \in {"error", "unreadable"} THEN Thrown
  ELSE IF response.kind = "status" THEN None
  ELSE response.value

\* fetchBirdeyePrice and fetchDexScreenerPrice on the response: null on a
\* caught error and on a status that is not OK, else the price of the body
\* or null
PriceIn(response) == IF response.kind = "ok" THEN response.value ELSE None

\* the operations of a lookup that met an error: a request or a body that
\* rejects, in the select, in a fetch function or in saveToCache
WithError(l, op, failed) == IF failed THEN l.errors \cup {op} ELSE l.errors

RECURSIVE MulPow10(_, _)
\* a * 10^s
MulPow10(a, s) == IF s = 0 THEN a ELSE MulPow10(BigMulSmall(a, 10), s - 1)

\* priceUsd.toString() taken into a decimal(20,8) column: eight places, the
\* rest rounded off, a half away from zero. (The string of a number read from
\* a decimal of up to 15 digits is that decimal.)
Numeric8(d) ==
  IF d.s <= 8
  THEN [neg |-> d.neg, n |-> MulPow10(d.n, 8 - d.s), s |-> 8]
  ELSE [neg |-> d.neg,
        n |-> DivPow10(BigAdd(d.n, MulPow10(BigOfInt(5), d.s - 9)), d.s - 8),
        s |-> 8]

\* the decimals a lookup can meet: the prices in the providers' bodies and
\* what the table keeps of them
PricesMet ==
  ((UNION {BirdeyeAnswers(token) \cup DexScreenerAnswers(token) : token \in LookupTokens})
     \cup {pair.priceUsd : pair \in PairPool}
     \cup {KnownPrice(token) : token \in {USDC, solToken, TKA, TKB}}
     \cup {BirdeyePrice(solToken)}) \ {None}

\* Number over the decimals a lookup can meet, computed once
NumberTable == [d \in PricesMet \cup {Numeric8(p) : p \in PricesMet} |-> Number(d)]

\* the number read from a price: JSON's number of a body, Number(text) of a row
NumberOf(d) == IF d \in DOMAIN NumberTable THEN NumberTable[d] ELSE Number(d)

PriceResult(priceUsd, source, cached) ==
  [priceUsd |-> priceUsd, source |-> source, cached |-> cached]

\* a row of token_prices; id is what gen_random_uuid() gave it
Row(id, tokenAddress, timestamp, priceUsd, source) ==
  [id |-> id, tokenAddress |-> tokenAddress, timestamp |-> timestamp,
   priceUsd |-> priceUsd, source |-> source]

\* getTokenPrice(tokenAddress, timestamp) as it is called; pc names what
\* the call waits for: the select (checkCache), the answer to a request
\* (birdeye, dexscreener), the body of the answer (birdeyeJson,
\* dexscreenerJson), the insert (save), or that it returned (done) or
\* rejected (threw)
NewLookup(token, timestamp) ==
  [pc |-> "called", token |-> token, timestamp |-> timestamp, asked |-> <<>>,
   seen |-> 0, errors |-> {}, found |-> None, response |-> None,
   birdeyePrice |-> None, dexPrice |-> None, stored |-> None, result |-> None]

NoLookups == <<>>

\* a cache that answers only for the very timestamp it stored
SameTimestamp(row, token, timestamp) ==
  row.tokenAddress = token /\ row.timestamp = timestamp

\* gte(timestamp, windowStart) and lte(timestamp, windowEnd) for the token
InWindowStrict(row, token, timestamp) ==
  /\ row.tokenAddress = token
  /\ row.timestamp > timestamp - CACHE_DURATION_MS
  /\ row.timestamp < timestamp + CACHE_DURATION_MS

InWindow(row, token, timestamp) ==
  /\ row.tokenAddress = token
  /\ row.timestamp >= timestamp - CACHE_DURATION_MS
  /\ row.timestamp <= timestamp + CACHE_DURATION_MS

RowsInWindow(table, token, timestamp) ==
  {table[k] : k \in {j \in 1..Len(table) : InWindow(table[j], token, timestamp)}}

\* select ... limit(1) without an order: any one of the matching rows
Selected(table, token, timestamp) ==
  IF RowsInWindow(table, token, timestamp) = {} THEN {None}
  ELSE RowsInWindow(table, token, timestamp)

\* cached.length > 0 && cached[0].priceUsd (a non-empty string is truthy)
IsHit(row) == row # None /\ row.priceUsd # None

\* what checkCache returns for the row selected
CacheResult(row) ==
  PriceResult(NumberOf(row.priceUsd), OrElse(row.source, "cache"), TRUE)

RECURSIVE Upsert(_, _)
\* an insert that overwrites the row stored for the same token and timestamp
Upsert(table, row) ==
  IF Len(table) = 0 THEN <<row>>
  ELSE IF table[1].tokenAddress = row.tokenAddress /\ table[1].timestamp = row.timestamp
       THEN <<row>> \o Tail(table)
       ELSE <<table[1]>> \o Upsert(Tail(table), row)

\* insert ... onConflictDoNothing(): the only unique constraint of the table
\* is its primary key id
OnConflictDoNothing(table, row) ==
  IF \E k \in 1..Len(table) : table[k].id = row.id THEN table
  ELSE Append(table, row)

\* the row saveToCache inserts; the id is one no row has yet
NewRow(table, token, timestamp, price, source) ==
  Row(Len(table) + 1, token, timestamp, Numeric8(price), source)

\* saveToCache: the insert, or nothing when the insert fails (the error is
\* caught and logged)
SaveToCache(table, token, timestamp, price, source, ok) ==
  IF ok THEN OnConflictDoNothing(table, NewRow(table, token, timestamp, price, source))
  ELSE table

\* a call after one more request of kind op was answered
Asked(l, op) == [l EXCEPT !.asked = Append(@, op)]

\* how the providers answer a request for the token, and whether a statement
\* sent to the database succeeds
BirdeyeResponsesNow(token) ==
  IF world.free THEN BirdeyeResponses(token)
  ELSE IF token \in world.unpriced \/ ~BirdeyeKnows(token) THEN {NotOk}
  ELSE {Body(BirdeyePrice(token))}

DexScreenerResponsesNow(token) ==
  IF world.free THEN DexScreenerResponses(token)
  ELSE IF token \in world.unpriced THEN {NotOk}
  ELSE {Body(KnownPrice(token))}

DatabaseAnswers == IF world.free THEN BOOLEAN ELSE {world.database = "up"}

\* if (!apiKey || apiKey === 'your_birdeye_api_key_here') return null
HasApiKey(apiKey) == ~(apiKey = Null \/ apiKey = "" \/ apiKey = Placeholder)

\* fetchBirdeyePrice is called: it sends its request, or without a key
\* returns null at once, and then fetchDexScreenerPrice sends its request
CallBirdeye(l) ==
  [l EXCEPT !.pc = IF HasApiKey(world.apiKey) THEN "birdeye" ELSE "dexscreener"]

\* a call that looks into the cache for any token
ChecksCacheAlways(token) == TRUE

\* if (!MAJOR_TOKENS.has(tokenAddress)) return null
ChecksCache(token) == token \in MAJOR_TOKENS

\* the call up to its first request: the select for a major token, else the
\* request to a provider
Called(token, timestamp) ==
  IF ChecksCache(token) THEN [NewLookup(token, timestamp) EXCEPT !.pc = "checkCache"]
  ELSE CallBirdeye(NewLookup(token, timestamp))

\* results.set(address, price)
MapSet(map, key, value) ==
  [k \in (DOMAIN map) \cup {key} |-> IF k = key THEN value ELSE map[k]]

\* the call of getTokenPrices b after lookup i went on as l: when one of its
\* lookups returns, the quote is set in the map; when one rejects, Promise.all
\* and the call reject (the other lookups go on)
AfterLookup(b, i, l) ==
  IF i \notin b.pending THEN b
  ELSE IF l.pc = "done"
  THEN [b EXCEPT !.pending = @ \ {i},
                 !.results = MapSet(@, l.token, l.result)]
  ELSE IF l.pc = "threw"
  THEN [b EXCEPT !.pending = @ \ {i},
                 !.pc = IF @ = "await" THEN "threw" ELSE @]
  ELSE b

\* lookup i goes on as l
GoesOn(i, l) ==
  /\ lookups' = [lookups EXCEPT ![i] = l]
  /\ batch' = AfterLookup(batch, i, l)

\* getTokenPrice(tokenAddress, timestamp) is called
GetTokenPrice(i) ==
  /\ i = Len(lookups) + 1
  /\ \E token \in LookupTokens, timestamp \in LookupTimes :
       /\ timestamp \in TimesOf(token)
       /\ lookups' = Append(lookups, Called(token, timestamp))
  /\ UNCHANGED <<cache, world, calcVars, previous, routerVars>>

\* the call after checkCache returned what it made of the row selected
AfterSelect(l, table, row) ==
  IF IsHit(row)
  THEN [Asked(l, "select") EXCEPT !.seen = Len(table), !.found = row,
                                  !.result = CacheResult(row), !.pc = "done"]
  ELSE CallBirdeye([Asked(l, "select") EXCEPT !.seen = Len(table), !.found = row])

\* const cached = await checkCache(...); if (cached) return cached
\* The select is answered. A select that fails is not caught: the call
\* rejects.
CheckCache(i) ==
  /\ i \in DOMAIN lookups
  /\ lookups[i].pc = "checkCache"
  /\ \E ok \in DatabaseAnswers :
       IF ok
       THEN \E row \in Selected(cache, lookups[i].token, lookups[i].timestamp) :
              GoesOn(i, AfterSelect(lookups[i], cache, row))
       ELSE GoesOn(i, [Asked(lookups[i], "select") EXCEPT !.errors = {"select"},
                                                          !.pc = "threw"])
  /\ UNCHANGED <<cache, world, calcVars, previous, helius, transactionsTable, pairsCall>>

\* a call that writes whatever it finds to the cache, major token or not
AfterFetchAlwaysSaving(l, op, price, nextPc) ==
  IF price = None THEN [l EXCEPT !.pc = nextPc]
  ELSE [l EXCEPT !.pc = "save"]

\* a call that asks a provider a second time when it gave no price
AfterFetchRetrying(l, op, price, nextPc) ==
  IF price = None /\ Cardinality({k \in 1..Len(l.asked) : l.asked[k] = op}) < 2
  THEN [l EXCEPT !.pc = op]
  ELSE IF price = None THEN [l EXCEPT !.pc = nextPc]
  ELSE IF l.token \in MAJOR_TOKENS THEN [l EXCEPT !.pc = "save"]
  ELSE [l EXCEPT !.pc = "done",
                 !.result = PriceResult(NumberOf(price), op, FALSE)]

\* the call after a provider's function returned price: on to the other
\* provider, on to the cache write, or returned
AfterFetch(l, op, price, nextPc) ==
  IF price = Thrown THEN [l EXCEPT !.pc = "threw"]
  ELSE IF price = None THEN [l EXCEPT !.pc = nextPc]
  ELSE IF l.token \in MAJOR_TOKENS THEN [l EXCEPT !.pc = "save"]
  ELSE [l EXCEPT !.pc = "done",
                 !.result = PriceResult(NumberOf(price), op, FALSE)]

\* the call after the answer to its request came in; an error is caught
Answered(l, op, response) ==
  [Asked(l, op) EXCEPT !.response = response,
                       !.errors = WithError(l, op, response = Failed)]

\* the call after response.json() of its request came in; an error is caught
BodyRead(l, op) ==
  [l EXCEPT !.errors = WithError(l, op, l.response = Unreadable)]

\* the call after fetchBirdeyePrice returned price
AfterBirdeye(l, price) ==
  [AfterFetch(l, "birdeye", price, "dexscreener") EXCEPT !.birdeyePrice = price]

\* const response = await fetch(...) of fetchBirdeyePrice is answered: on to
\* response.json() when the status is OK
FetchBirdeyePrice(i) ==
  /\ i \in DOMAIN lookups
  /\ lookups[i].pc = "birdeye"
  /\ \E response \in BirdeyeResponsesNow(lookups[i].token) :
       GoesOn(i, IF StatusOk(response)
                 THEN [Answered(lookups[i], "birdeye", response)
                         EXCEPT !.pc = "birdeyeJson"]
                 ELSE AfterBirdeye(Answered(lookups[i], "birdeye", response),
                                   PriceIn(response)))
  /\ UNCHANGED <<cache, world, calcVars, previous, helius, transactionsTable, pairsCall>>

\* const data = await response.json(); return data.data?.value || null
ReadBirdeyePrice(i) ==
  /\ i \in DOMAIN lookups
  /\ lookups[i].pc = "birdeyeJson"
  /\ GoesOn(i, AfterBirdeye(BodyRead(lookups[i], "birdeye"),
                            PriceIn(lookups[i].response)))
  /\ UNCHANGED <<cache, world, calcVars, previous, helius, transactionsTable, pairsCall>>

\* a call that names the first provider as the source of whatever it found
FoundSourceFirst(l) == "birdeye"

\* the price found and the source it came from
FoundPrice(l) == IF l.birdeyePrice # None THEN l.birdeyePrice ELSE l.dexPrice
FoundSource(l) == IF l.birdeyePrice # None THEN "birdeye" ELSE "dexscreener"

\* the row of the table that the insert of the call added, None if it added none
StoredBy(table, newTable) ==
  IF Len(newTable) > Len(table) THEN newTable[Len(newTable)] ELSE None

\* await saveToCache(tokenAddress, timestamp, price, source); return { ... }
SaveAndReturn(i, newTable, ok) ==
  /\ cache' = newTable
  /\ GoesOn(i, [Asked(lookups[i], "insert")
                  EXCEPT !.stored = StoredBy(cache, newTable),
                         !.errors = WithError(lookups[i], "insert", ~ok),
                         !.result = PriceResult(NumberOf(FoundPrice(lookups[i])),
                                                FoundSource(lookups[i]), FALSE),
                         !.pc = "done"])

\* the insert is answered
Save(i) ==
  /\ i \in DOMAIN lookups
  /\ lookups[i].pc = "save"
  /\ \E ok \in DatabaseAnswers :
       SaveAndReturn(i, SaveToCache(cache, lookups[i].token, lookups[i].timestamp,
                                    FoundPrice(lookups[i]), FoundSource(lookups[i]), ok),
                     ok)
  /\ UNCHANGED <<world, calcVars, previous, helius, transactionsTable, pairsCall>>

\* a call that returns a price of 0 from the second provider when there is none
AfterDexScreenerZero(l, price) ==
  IF price = None
  THEN [l EXCEPT !.pc = "done",
                 !.result = PriceResult(FZero, "dexscreener", FALSE),
                 !.dexPrice = price]
  ELSE [AfterFetch(l, "dexscreener", price, "done") EXCEPT !.dexPrice = price]

\* the call after fetchDexScreenerPrice returned price: the cache write, or
\* returned with the price or with none
AfterDexScreener(l, price) ==
  IF price = None
  THEN [l EXCEPT !.pc = "done",
                 !.result = PriceResult(None, "none", FALSE),
                 !.dexPrice = price]
  ELSE [AfterFetch(l, "dexscreener", price, "done") EXCEPT !.dexPrice = price]

\* const response = await fetch(...) of fetchDexScreenerPrice is answered: on
\* to response.json() when the status is OK
FetchDexScreenerPrice(i) ==
  /\ i \in DOMAIN lookups
  /\ lookups[i].pc = "dexscreener"
  /\ \E response \in DexScreenerResponsesNow(lookups[i].token) :
       GoesOn(i, IF StatusOk(response)
                 THEN [Answered(lookups[i], "dexscreener", response)
                         EXCEPT !.pc = "dexscreenerJson"]
                 ELSE AfterDexScreener(Answered(lookups[i], "dexscreener", response),
                                       PriceIn(response)))
  /\ UNCHANGED <<cache, world, calcVars, previous, helius, transactionsTable, pairsCall>>

\* const data = await response.json(); the price of the most liquid pair
ReadDexScreenerPrice(i) ==
  /\ i \in DOMAIN lookups
  /\ lookups[i].pc = "dexscreenerJson"
  /\ GoesOn(i, AfterDexScreener(BodyRead(lookups[i], "dexscreener"),
                                PriceIn(lookups[i].response)))
  /\ UNCHANGED <<cache, world, calcVars, previous, helius, transactionsTable, pairsCall>>

----------------------------------------------------------------------------
(* fetchDexScreenerPrice: the price of the most liquid pair *)

IdlePairsCall == [pc |-> "idle", response |-> None, result |-> None]

\* const response = await fetch(...) is answered: null after an error and on
\* a status that is not OK, else on to response.json()
FetchPairs ==
  /\ pairsCall.pc = "idle"
  /\ \E response \in {Failed, NotOk, Unreadable} \cup {Body(data) : data \in PairData} :
       pairsCall' = [pairsCall EXCEPT !.pc = IF StatusOk(response) THEN "fetched"
                                             ELSE "done",
                                      !.response = response]
  /\ UNCHANGED <<calcVars, previous, serviceVars, batch, helius, transactionsTable>>

\* the price the function returns for a response
DexScreenerPrice(response) ==
  IF response.kind # "ok" THEN None
  ELSE IF BestPairPrice(response.value) = None THEN None
  ELSE NumberOf(BestPairPrice(response.value))

\* const data = await response.json() is answered: the sort and the return
ReadPairs ==
  /\ pairsCall.pc = "fetched"
  /\ pairsCall' = [pairsCall EXCEPT !.pc = "done",
                                    !.result = DexScreenerPrice(pairsCall.response)]
  /\ UNCHANGED <<calcVars, previous, serviceVars, batch, helius, transactionsTable>>

----------------------------------------------------------------------------
(* getTokenPrices: the lookups of a list of addresses, in batches *)

batchSize == 5

\* the addresses a list is made of
AddressPool == <<solToken, USDC, TKA, BONK, TKB, JUP, mSOL, ETH>>

\* the most distinct addresses in a list
MaxAddresses == 6

FirstAddresses(n) == SubSeq(AddressPool, 1, n)

\* every address twice in a row
Doubled(list) == [k \in 1..(2 * Len(list)) |-> list[(k + 1) \div 2]]

\* lists without duplicates, with every address repeated at once, and with
\* the whole list repeated
AddressLists ==
  UNION { {FirstAddresses(n), Doubled(FirstAddresses(n)),
           FirstAddresses(n) \o FirstAddresses(n)} : n \in 0..MaxAddresses }

\* the outsides a call of getTokenPrices is checked in: no price missing,
\* one token without a price, and a database that is down
BatchWorlds ==
  {World(Null, NotOk, {}, "up"), World(Null, NotOk, {TKA}, "up"),
   World(Null, NotOk, {}, "down"), World("key", NotOk, {TKB}, "up")}

IdleBatch ==
  [pc |-> "idle", tokenAddresses |-> <<>>, timestamp |-> 0,
   uniqueAddresses |-> <<>>, i |-> 0, pending |-> {}, calls |-> <<>>,
   pauses |-> 0, results |-> <<>>]

\* uniqueAddresses as the input list is taken for it
KeepAll(list) == list

RECURSIVE UniqueFrom(_, _, _)
UniqueFrom(list, k, seen) ==
  IF k > Len(list) THEN seen
  ELSE IF \E j \in 1..Len(seen) : seen[j] = list[k] THEN UniqueFrom(list, k + 1, seen)
  ELSE UniqueFrom(list, k + 1, Append(seen, list[k]))

\* [...new Set(tokenAddresses)]: the addresses in the order of their first
\* occurrence
Unique(list) == UniqueFrom(list, 1, <<>>)

\* uniqueAddresses.slice(i, i + batchSize)
Slice(list, i) ==
  SubSeq(list, i + 1, IF i + batchSize < Len(list) THEN i + batchSize ELSE Len(list))

\* the loop's test: another batch, or return results
AtLoopTest(b, i) ==
  [b EXCEPT !.i = i, !.pc = IF i < Len(b.uniqueAddresses) THEN "batch" ELSE "done"]

\* getTokenPrices(tokenAddresses, timestamp) as it is called
NewBatch(list, timestamp) ==
  AtLoopTest([IdleBatch EXCEPT !.tokenAddresses = list,
                               !.timestamp = timestamp,
                               !.uniqueAddresses = Unique(list)], 0)

\* getTokenPrices(tokenAddresses, timestamp) is called
CallGetTokenPrices ==
  /\ batch.pc = "idle"
  /\ \E list \in AddressLists : batch' = NewBatch(list, 0)
  /\ UNCHANGED <<calcVars, previous, serviceVars, helius, transactionsTable, pairsCall>>

\* batch.map(async (address) => ...): one call of getTokenPrice for every
\* address of the slice, each up to its first request, all before the first
\* of them is answered; the number of a lookup is its place in lookups
StartBatch ==
  /\ batch.pc = "batch"
  /\ lookups' = lookups \o [k \in 1..Len(Slice(batch.uniqueAddresses, batch.i)) |->
                             Called(Slice(batch.uniqueAddresses, batch.i)[k],
                                    batch.timestamp)]
  /\ batch' = [batch EXCEPT
       !.calls = @ \o Slice(batch.uniqueAddresses, batch.i),
       !.pending = {Len(lookups) + k :
                      k \in 1..Len(Slice(batch.uniqueAddresses, batch.i))},
       !.pc = "await"]
  /\ UNCHANGED <<calcVars, previous, cache, world, helius, transactionsTable, pairsCall>>

\* a call that pauses after every batch, the last one included
EndBatchPausing ==
  /\ batch.pc = "await"
  /\ batch.pending = {}
  /\ batch' = [batch EXCEPT !.pc = "pause"]
  /\ UNCHANGED <<calcVars, previous, serviceVars, helius, transactionsTable, pairsCall>>

\* await Promise.all(promises) is over: the pause, if more addresses follow
EndBatch ==
  /\ batch.pc = "await"
  /\ batch.pending = {}
  /\ batch' = IF batch.i + batchSize < Len(batch.uniqueAddresses)
              THEN [batch EXCEPT !.pc = "pause"]
              ELSE AtLoopTest(batch, batch.i + batchSize)
  /\ UNCHANGED <<calcVars, previous, serviceVars, helius, transactionsTable, pairsCall>>

\* the 200 ms are over
EndPause ==
  /\ batch.pc = "pause"
  /\ batch' = AtLoopTest([batch EXCEPT !.pauses = @ + 1], batch.i + batchSize)
  /\ UNCHANGED <<calcVars, previous, serviceVars, helius, transactionsTable, pairsCall>>

----------------------------------------------------------------------------
(* fetchTransactions: the pages of swaps of a wallet *)

maxPages == 50

\* new Date(year, 0, 1) and new Date(year, 11, 31, 23, 59, 59), in seconds
YearStart == 1000
YearEnd == 1999

\* the swaps of one page of the provider
PageSize == 2

\* the most swaps of a wallet within the year
MaxSwaps == 102

\* the history of a wallet at the provider, newest first: swaps after the
\* end of the year, swaps within it and swaps before its start; plain names
\* the transactions that come without events.swap: none, the newest of the
\* year, or all
Wallets ==
  [newer : 0..1, inYear : 0..MaxSwaps, older : 0..2, plain : {"none", "newest", "all"}]

Total(wallet) == wallet.newer + wallet.inYear + wallet.older

\* tx.timestamp of the k-th swap, counted from the newest one; the oldest
\* swap of the year is made in its first second, the newest in its last
TimestampOf(wallet, k) ==
  IF k <= wallet.newer THEN YearEnd + (wallet.newer - k + 1)
  ELSE IF k = wallet.newer + 1 /\ wallet.inYear > 1 THEN YearEnd
  ELSE IF k <= wallet.newer + wallet.inYear
  THEN YearStart + (wallet.newer + wallet.inYear - k)
  ELSE YearStart - (k - wallet.newer - wallet.inYear)

\* the page the provider answers with: the swaps after the one named by
\* before, or the newest ones; a swap's signature is its place in the history
PageAfter(wallet, before) ==
  [k \in 1..(IF before + PageSize < Total(wallet) THEN PageSize
             ELSE Total(wallet) - before) |-> before + k]

IdleFetch ==
  [pc |-> "idle", wallet |-> None, pageCount |-> 0, lastSignature |-> 0,
   reachedStartOfYear |-> FALSE, cursors |-> <<>>, pages |-> <<>>,
   heliusTransactions |-> <<>>, parsedTransactions |-> <<>>, inserted |-> 0,
   returned |-> None]

\* if (txDate < startDate || txDate > endDate) continue
InRange(wallet, k) ==
  ~(TimestampOf(wallet, k) < YearStart \/ TimestampOf(wallet, k) > YearEnd)

\* const swap = tx.events?.swap; if (!swap) return null
parseSwapTransaction(wallet, k) ==
  IF wallet.plain = "all" \/ (wallet.plain = "newest" /\ k = wallet.newer + 1)
  THEN None ELSE [signature |-> k]

RECURSIVE Filtered(_, _, _)
\* the transactions of the year that parse, in the order collected
Filtered(wallet, txs, k) ==
  IF k > Len(txs) THEN <<>>
  ELSE IF InRange(wallet, txs[k]) /\ parseSwapTransaction(wallet, txs[k]) # None
  THEN <<txs[k]>> \o Filtered(wallet, txs, k + 1)
  ELSE Filtered(wallet, txs, k + 1)

\* return { fetched, parsed, year }
Returned(f) ==
  [f EXCEPT !.pc = "done",
            !.returned = [fetched |-> Len(f.heliusTransactions),
                          parsed |-> Len(f.parsedTransactions)]]

\* the next insert is sent, or the call returns after the last one
AtInsert(f) ==
  IF f.inserted < Len(f.parsedTransactions) THEN [f EXCEPT !.pc = "insert"]
  ELSE Returned(f)

\* the loop is left: the transactions collected are filtered by the year and
\* parsed, and the first of them is sent to the table
StoreTransactions(f) ==
  AtInsert([f EXCEPT
    !.parsedTransactions = Filtered(f.wallet, f.heliusTransactions, 1)])

\* the head of a round of the loop, up to its request: pageCount++, and the
\* request with the last signature as its cursor
NextPage(f) ==
  [f EXCEPT !.pageCount = @ + 1,
            !.cursors = Append(@, f.lastSignature),
            !.pc = "page"]

\* the loop's test: another page, or on to the filter
AtPageTest(f) ==
  IF ~f.reachedStartOfYear /\ f.pageCount < maxPages THEN NextPage(f)
  ELSE StoreTransactions(f)

\* fetchTransactions({walletAddress, year}) is called; it throws without an
\* API key, else it sends the request of the first page
FetchTransactions ==
  /\ helius.pc = "idle"
  /\ \E wallet \in Wallets, heliusApiKey \in BOOLEAN :
       helius' = IF heliusApiKey THEN AtPageTest([IdleFetch EXCEPT !.wallet = wallet])
                 ELSE [IdleFetch EXCEPT !.wallet = wallet, !.pc = "threw"]
  /\ UNCHANGED <<calcVars, previous, serviceVars, batch, pairsCall, transactionsTable>>

\* heliusTransactions.push(...batch), the cursor for the next page, and
\* whether the oldest swap of the page was made before the start of the year
Collected(f, page) ==
  [f EXCEPT !.heliusTransactions = @ \o page,
            !.lastSignature = page[Len(page)],
            !.reachedStartOfYear = TimestampOf(f.wallet, page[Len(page)]) < YearStart]

\* if (!reachedStartOfYear && pageCount < maxPages) await the 100 ms
AtDelay(f) ==
  IF ~f.reachedStartOfYear /\ f.pageCount < maxPages THEN [f EXCEPT !.pc = "delay"]
  ELSE AtPageTest(f)

\* the call after a page arrived: break on an empty page; else the page is
\* collected and the call waits before the next round, or leaves the loop
AfterPage(f, page) ==
  IF Len(page) = 0 THEN StoreTransactions(f)
  ELSE AtDelay(Collected(f, page))

\* const response = await fetch(url) is answered: the call throws on a status
\* that is not OK, else it goes on to response.json()
RequestPage ==
  /\ helius.pc = "page"
  /\ \E ok \in BOOLEAN :
       helius' = [helius EXCEPT !.pc = IF ok THEN "json" ELSE "threw"]
  /\ UNCHANGED <<calcVars, previous, serviceVars, batch, pairsCall, transactionsTable>>

\* const batch = await response.json() is answered with the page, or the
\* body cannot be read and the call throws
ReadPage ==
  /\ helius.pc = "json"
  /\ \E ok \in BOOLEAN :
       helius' = IF ok
                 THEN AfterPage([helius EXCEPT
                                   !.pages = Append(@, PageAfter(helius.wallet,
                                                                 helius.lastSignature))],
                                PageAfter(helius.wallet, helius.lastSignature))
                 ELSE [helius EXCEPT !.pc = "threw"]
  /\ UNCHANGED <<calcVars, previous, serviceVars, batch, pairsCall, transactionsTable>>

\* the 100 ms are over: the loop's test and the next round
EndDelay ==
  /\ helius.pc = "delay"
  /\ helius' = AtPageTest(helius)
  /\ UNCHANGED <<calcVars, previous, serviceVars, batch, pairsCall, transactionsTable>>

\* await db.insert(transactions).values(tx).onConflictDoNothing() is
\* answered: the row is in the table (signature is unique), or the insert
\* was rejected, which is caught and logged; the next record follows
InsertTransaction ==
  /\ helius.pc = "insert"
  /\ \E ok \in DatabaseAnswers :
       transactionsTable' =
         IF ok THEN transactionsTable \cup {helius.parsedTransactions[helius.inserted + 1]}
         ELSE transactionsTable
  /\ helius' = AtInsert([helius EXCEPT !.inserted = @ + 1])
  /\ UNCHANGED <<calcVars, previous, serviceVars, batch, pairsCall>>

----------------------------------------------------------------------------
(* calculateTaxes *)

PPH_SELL == Number(Dec(2, 3))
PPN_BUY == Number(Dec(22, 4))

TokenAddresses(txs) ==
  {txs[i].fromToken : i \in {j \in 1..Len(txs) : OrElse(txs[j].fromToken, "") # ""}}
    \cup {txs[i].toToken : i \in {j \in 1..Len(txs) : OrElse(txs[j].toToken, "") # ""}}

\* fromToken and toToken of every record, in the order of the list
BothTokens(txs) ==
  [k \in 1..(2 * Len(txs)) |-> IF k % 2 = 1 THEN txs[(k + 1) \div 2].fromToken
                                ELSE txs[k \div 2].toToken]

\* [...tokenAddresses]: the tokens in the order in which the set took them
TokenAddressList(txs) ==
  Unique(SelectSeq(BothTokens(txs), LAMBDA token : OrElse(token, "") # ""))

RECURSIVE InsertByTimestamp(_, _)
\* tx put behind every record whose timestamp is not later than its own
InsertByTimestamp(sorted, tx) ==
  IF Len(sorted) = 0 THEN <<tx>>
  ELSE IF sorted[Len(sorted)].timestamp - tx.timestamp <= 0
       THEN Append(sorted, tx)
       ELSE Append(InsertByTimestamp(SubSeq(sorted, 1, Len(sorted) - 1), tx),
                   sorted[Len(sorted)])

\* a run that keeps the order of the input list (no sort)
InputOrder(txs) == txs

RECURSIVE SortByTimestamp(_)
\* [...transactions].sort((a, b) => a.timestamp - b.timestamp): a stable sort
SortByTimestamp(txs) ==
  IF Len(txs) = 0 THEN <<>>
  ELSE InsertByTimestamp(SortByTimestamp(SubSeq(txs, 1, Len(txs) - 1)), txs[Len(txs)])

IsStableOrSol(token) == token \in stableTokens \/ token = solToken

\* a lookup that takes a missing price for a price of one
PriceOfOrOne(token) ==
  IF token \in DOMAIN prices /\ prices[token].priceUsd # None
  THEN prices[token].priceUsd ELSE FromInt(1)

\* prices.get(token)?.priceUsd || 0
PriceOf(token) ==
  IF token \in DOMAIN prices /\ prices[token].priceUsd # None
  THEN prices[token].priceUsd ELSE FZero

\* tokenLots.get(token) || []
LotsOf(lotMap, token) == IF token \in DOMAIN lotMap THEN lotMap[token] ELSE <<>>

\* if (!tokenLots.has(token)) tokenLots.set(token, []); tokenLots.get(token).push(lot)
PushLotAtHead(lotMap, token, lot) ==
  [t \in DOMAIN lotMap \cup {token} |->
     IF t = token THEN <<lot>> \o LotsOf(lotMap, token) ELSE lotMap[t]]

PushLot(lotMap, token, lot) ==
  [t \in DOMAIN lotMap \cup {token} |->
     IF t = token THEN Append(LotsOf(lotMap, token), lot) ELSE lotMap[t]]

\* the lots array is changed in place: a queue stored in the map changes with it
\* every queue of the ledger replaced by the lots given
StoreLotsInAll(lotMap, token, lots) ==
  [t \in DOMAIN lotMap |-> lots]

StoreLots(lotMap, token, lots) ==
  IF token \in DOMAIN lotMap THEN [lotMap EXCEPT ![token] = lots] ELSE lotMap

\* lot.amount -= remainingToSell; lot.costBasis *= (1 - fraction)
PartialLot(lot, remainingToSell, fraction) ==
  [lot EXCEPT !.amount = FSub(@, remainingToSell),
              !.costBasisUsd = FMul(@, FSub(FromInt(1), fraction)),
              !.costBasisIdr = FMul(@, FSub(FromInt(1), fraction))]

\* the else branch of the loop body: use a part of the head lot
UsePartialLot(lots, remainingToSell, totalCostUsd, totalCostIdr, fraction) ==
  [lots |-> <<PartialLot(lots[1], remainingToSell, fraction)>> \o Tail(lots),
   remainingToSell |-> FZero,
   totalCostUsd |-> FAdd(totalCostUsd, FMul(lots[1].costBasisUsd, fraction)),
   totalCostIdr |-> FAdd(totalCostIdr, FMul(lots[1].costBasisIdr, fraction))]

RECURSIVE ConsumeLots(_, _, _, _)
\* while (remainingToSell > 0 && lots.length > 0) { ... }
ConsumeLots(lots, remainingToSell, totalCostUsd, totalCostIdr) ==
  IF ~(FGt(remainingToSell, FZero) /\ Len(lots) > 0)
  THEN [lots |-> lots, remainingToSell |-> remainingToSell,
        totalCostUsd |-> totalCostUsd, totalCostIdr |-> totalCostIdr]
  ELSE IF FLe(lots[1].amount, remainingToSell)
       THEN ConsumeLots(Tail(lots), FSub(remainingToSell, lots[1].amount),
                        FAdd(totalCostUsd, lots[1].costBasisUsd),
                        FAdd(totalCostIdr, lots[1].costBasisIdr))
       ELSE UsePartialLot(lots, remainingToSell, totalCostUsd, totalCostIdr,
                          FDiv(remainingToSell, lots[1].amount))

RECURSIVE Reverse(_)
Reverse(q) == IF Len(q) = 0 THEN <<>> ELSE Append(Reverse(Tail(q)), q[1])

WithLotsReversed(used) == [used EXCEPT !.lots = Reverse(@)]

\* the walk that starts from the newest lot (LIFO)
ConsumeNewestFirst(lotMap, token, amount) ==
  WithLotsReversed(ConsumeLots(Reverse(LotsOf(lotMap, token)), amount, FZero, FZero))

\* the FIFO walk of a disposal of amount of token
Consume(lotMap, token, amount) == ConsumeLots(LotsOf(lotMap, token), amount, FZero, FZero)

ZeroTotals ==
  [totalBuys |-> 0, totalSells |-> 0,
   totalBuyValueIdr |-> FZero, totalSellValueIdr |-> FZero,
   totalGainIdr |-> FZero, totalLossIdr |-> FZero,
   totalPphTax |-> FZero, totalPpnTax |-> FZero]

Summary(n, t, res) ==
  [totalTransactions |-> n,
   totalBuys |-> t.totalBuys, totalSells |-> t.totalSells,
   totalBuyValueIdr |-> t.totalBuyValueIdr, totalSellValueIdr |-> t.totalSellValueIdr,
   totalGainIdr |-> t.totalGainIdr, totalLossIdr |-> t.totalLossIdr,
   netGainLossIdr |-> FSub(t.totalGainIdr, t.totalLossIdr),
   totalPphTax |-> t.totalPphTax, totalPpnTax |-> t.totalPpnTax,
   totalTax |-> FAdd(t.totalPphTax, t.totalPpnTax),
   transactions |-> res]

LegValues(fromToken, toToken, fromAmount, toAmount, valueUsd) ==
  [fromToken |-> fromToken, toToken |-> toToken,
   fromAmount |-> fromAmount, toAmount |-> toAmount,
   fromPrice |-> PriceOf(fromToken), toPrice |-> PriceOf(toToken),
   transactionValueUsd |-> valueUsd,
   transactionValueIdr |-> FMul(valueUsd, usdIdrRate)]

LegAmounts(fromToken, toToken, fromAmount, toAmount) ==
  LegValues(fromToken, toToken, fromAmount, toAmount, FMul(toAmount, PriceOf(toToken)))

\* the values every branch of the loop body starts from
Leg(tx) ==
  LegAmounts(OrElse(tx.fromToken, ""), OrElse(tx.toToken, ""),
             NumberOrZero(tx.fromAmount), NumberOrZero(tx.toAmount))

TaxResult(tx, leg, type, costUsd, costIdr, gainUsd, gainIdr, pphTax, ppnTax) ==
  [signature |-> tx.signature, timestamp |-> tx.timestamp, type |-> type,
   fromToken |-> leg.fromToken, fromSymbol |-> OrElse(tx.fromSymbol, ""),
   fromAmount |-> leg.fromAmount,
   toToken |-> leg.toToken, toSymbol |-> OrElse(tx.toSymbol, ""),
   toAmount |-> leg.toAmount, dex |-> OrElse(tx.dex, "unknown"),
   fromPriceUsd |-> leg.fromPrice, toPriceUsd |-> leg.toPrice,
   usdIdrRate |-> usdIdrRate,
   transactionValueUsd |-> leg.transactionValueUsd,
   transactionValueIdr |-> leg.transactionValueIdr,
   costBasisUsd |-> costUsd, costBasisIdr |-> costIdr,
   gainLossUsd |-> gainUsd, gainLossIdr |-> gainIdr,
   pphTax |-> pphTax, ppnTax |-> ppnTax, totalTax |-> FAdd(pphTax, ppnTax)]

\* a lot that names the token paid with
LotOfUsdc(token, amount, costUsd, costIdr, ts) ==
  [tokenAddress |-> USDC, amount |-> amount,
   costBasisUsd |-> costUsd, costBasisIdr |-> costIdr, timestamp |-> ts]

NewLot(token, amount, costUsd, costIdr, ts) ==
  [tokenAddress |-> token, amount |-> amount,
   costBasisUsd |-> costUsd, costBasisIdr |-> costIdr, timestamp |-> ts]

\* if (gainLossIdr > 0) totalGainIdr += gainLossIdr; else totalLossIdr += |gainLossIdr|
AddGainLoss(t, gainLossIdr) ==
  IF FGt(gainLossIdr, FZero)
  THEN [t EXCEPT !.totalGainIdr = FAdd(@, gainLossIdr)]
  ELSE [t EXCEPT !.totalLossIdr = FAdd(@, FAbs(gainLossIdr))]

\* totalSells++; totalSellValueIdr += ...; gain or loss; totalPphTax += pphTax
AddSell(t, valueIdr, gainLossIdr, pphTax) ==
  [AddGainLoss(t, gainLossIdr) EXCEPT
     !.totalSells = @ + 1,
     !.totalSellValueIdr = FAdd(@, valueIdr),
     !.totalPphTax = FAdd(@, pphTax)]

RECURSIVE RowsFor(_, _, _)
\* the table with the rows that earlier lookups at time 0 left for the major
\* tokens of the list that have a price
RowsFor(list, unpriced, table) ==
  IF Len(list) = 0 THEN table
  ELSE RowsFor(Tail(list), unpriced,
               IF list[1] \in MAJOR_TOKENS \ unpriced
               THEN Append(table, NewRow(table, list[1], 0, KnownPrice(list[1]),
                                         "dexscreener"))
               ELSE table)

\* the table of a run over txs in the outside w that earlier runs filled
Warm(txs, w) == RowsFor(TokenAddressList(txs), w.unpriced, <<>>)

\* calculateTaxes(txs) is called in the outside w with the table given;
\* nothing else is under way
Starts(txs, w, table) ==
  /\ pc = "start"
  /\ transactions = txs
  /\ rateResponses = <<>>
  /\ usdIdrRate = None
  /\ prices = <<>>
  /\ sortedTransactions = <<>>
  /\ idx = 0
  /\ tokenLots = <<>>
  /\ results = <<>>
  /\ history = <<>>
  /\ totals = ZeroTotals
  /\ summary = None
  /\ previous = None
  /\ cache = table
  /\ lookups = NoLookups
  /\ world = w
  /\ batch = IdleBatch
  /\ helius = IdleFetch
  /\ transactionsTable = {}
  /\ pairsCall = IdlePairsCall

\* the outside the lists over six tokens are run in
WideWorld == World(Null, NotOk, {}, "up")

Init ==
  \/ \E txs \in InputLists : \E w \in RunWorlds(TokenAddresses(txs)) :
       Starts(txs, w, Warm(txs, w))
  \/ \E txs \in ShortLists : \E w \in ColdWorlds(TokenAddresses(txs)) :
       Starts(txs, w, <<>>)
  \/ \E txs \in WideLists :
       Starts(txs, WideWorld, Warm(txs, WideWorld)) \/ Starts(txs, WideWorld, <<>>)

\* if (transactions.length === 0) return { all zero, transactions: [] }
\* a run that asks for the rate before it looks at the list
ReturnEmptyAfterRate ==
  /\ pc = "start"
  /\ Len(transactions) = 0
  /\ \E response \in RateResponses :
       /\ rateResponses' = Append(rateResponses, response)
       /\ usdIdrRate' = UsdToIdrRate(response)
  /\ summary' = Summary(0, ZeroTotals, <<>>)
  /\ pc' = "done"
  /\ UNCHANGED <<previous, serviceVars, routerVars, transactions, prices,
                 sortedTransactions, idx, tokenLots, results, history, totals>>

ReturnEmpty ==
  /\ pc = "start"
  /\ Len(transactions) = 0
  /\ summary' = Summary(0, ZeroTotals, <<>>)
  /\ pc' = "done"
  /\ UNCHANGED <<previous, serviceVars, routerVars, transactions, rateResponses,
                 usdIdrRate, prices, sortedTransactions, idx, tokenLots,
                 results, history, totals>>

\* how the exchange-rate service answers
RateResponsesNow == IF world.free THEN RateResponses ELSE {world.rate}

\* the time of a call of getTokenPrices (timestamp = new Date())
TimeNow == IF previous = None THEN 0 ELSE world.later

\* const usdIdrRate = await getUsdToIdrRate(): const response = await
\* fetch(...) is answered; 15500 after an error and on a status that is not
\* OK, else on to response.json()
GetUsdToIdrRate ==
  /\ pc = "start"
  /\ Len(transactions) > 0
  /\ \E response \in RateResponsesNow :
       /\ rateResponses' = Append(rateResponses, response)
       /\ usdIdrRate' = IF StatusOk(response) THEN usdIdrRate
                        ELSE UsdToIdrRate(response)
       /\ pc' = IF StatusOk(response) THEN "rate" ELSE "prices"
  /\ UNCHANGED <<previous, serviceVars, routerVars, transactions, prices,
                 sortedTransactions, idx, tokenLots, results, history, totals,
                 summary>>

\* const data = await response.json(); return data.rates?.IDR || 15500
ReadRate ==
  /\ pc = "rate"
  /\ usdIdrRate' = UsdToIdrRate(rateResponses[Len(rateResponses)])
  /\ pc' = "prices"
  /\ UNCHANGED <<previous, serviceVars, routerVars, transactions, rateResponses,
                 prices, sortedTransactions, idx, tokenLots, results, history,
                 totals, summary>>

\* const prices = await getTokenPrices([...tokenAddresses]): the call is made
GetTokenPrices ==
  /\ pc = "prices"
  /\ batch.pc = "idle"
  /\ batch' = NewBatch(TokenAddressList(transactions), TimeNow)
  /\ pc' = "getTokenPrices"
  /\ UNCHANGED <<previous, serviceVars, helius, transactionsTable, pairsCall, transactions,
                 rateResponses, usdIdrRate, prices, sortedTransactions, idx,
                 tokenLots, results, history, totals, summary>>

\* getTokenPrices returned its map: the run has its prices, and nothing is
\* left of the call and its lookups
ReceivePrices ==
  /\ pc = "getTokenPrices"
  /\ batch.pc = "done"
  /\ prices' = batch.results
  /\ batch' = IdleBatch
  /\ lookups' = NoLookups
  /\ pc' = "sort"
  /\ UNCHANGED <<previous, cache, world, helius, transactionsTable, pairsCall, transactions,
                 rateResponses, usdIdrRate, sortedTransactions, idx, tokenLots,
                 results, history, totals, summary>>

\* getTokenPrices rejected: the run rejects (nothing catches the error)
RejectPrices ==
  /\ pc = "getTokenPrices"
  /\ batch.pc = "threw"
  /\ pc' = "threw"
  /\ UNCHANGED <<previous, serviceVars, routerVars, transactions, rateResponses,
                 usdIdrRate, prices, sortedTransactions, idx, tokenLots,
                 results, history, totals, summary>>

\* a run that sorts the list it was given
SortInPlace ==
  /\ pc = "sort"
  /\ transactions' = SortByTimestamp(transactions)
  /\ sortedTransactions' = SortByTimestamp(transactions)
  /\ tokenLots' = <<>>
  /\ results' = <<>>
  /\ history' = <<>>
  /\ totals' = ZeroTotals
  /\ idx' = 0
  /\ pc' = "loop"
  /\ UNCHANGED <<previous, serviceVars, routerVars, rateResponses, usdIdrRate,
                 prices, summary>>

\* a run that takes over the lot queues it finds
SortKeepingLedger ==
  /\ pc = "sort"
  /\ sortedTransactions' = SortByTimestamp(transactions)
  /\ results' = <<>>
  /\ history' = <<>>
  /\ totals' = ZeroTotals
  /\ idx' = 0
  /\ pc' = "loop"
  /\ UNCHANGED <<previous, serviceVars, routerVars, transactions, rateResponses,
                 usdIdrRate, prices, summary, tokenLots>>

\* const tokenLots = new Map(); const sortedTransactions = [...transactions].sort(...)
SortTransactions ==
  /\ pc = "sort"
  /\ sortedTransactions' = SortByTimestamp(transactions)
  /\ tokenLots' = <<>>
  /\ results' = <<>>
  /\ history' = <<>>
  /\ totals' = ZeroTotals
  /\ idx' = 0
  /\ pc' = "loop"
  /\ UNCHANGED <<previous, serviceVars, routerVars, transactions, rateResponses,
                 usdIdrRate, prices, summary>>

\* the record the loop handles next
NextTx == sortedTransactions[idx + 1]

InLoop == pc = "loop" /\ idx < Len(sortedTransactions)

\* fromIsStableOrSol && !toIsStableOrSol
IsBuy(tx) ==
  IsStableOrSol(OrElse(tx.fromToken, "")) /\ ~IsStableOrSol(OrElse(tx.toToken, ""))

\* a classifier that takes every record received in a base token for a sale
ToIsBase(tx) == IsStableOrSol(OrElse(tx.toToken, ""))

\* !fromIsStableOrSol && toIsStableOrSol
IsSell(tx) ==
  ~IsStableOrSol(OrElse(tx.fromToken, "")) /\ IsStableOrSol(OrElse(tx.toToken, ""))

BuyEffect(tx, leg, costUsd, ppnTax) ==
  /\ tokenLots' = PushLot(tokenLots, leg.toToken,
                          NewLot(leg.toToken, leg.toAmount, costUsd,
                                 FMul(costUsd, usdIdrRate), tx.timestamp))
  /\ totals' = [totals EXCEPT
                  !.totalBuys = @ + 1,
                  !.totalBuyValueIdr = FAdd(@, leg.transactionValueIdr),
                  !.totalPpnTax = FAdd(@, ppnTax)]
  /\ results' = Append(results,
                       TaxResult(tx, leg, "buy", FZero, FZero, FZero, FZero, FZero, ppnTax))
  /\ history' = Append(history, [lots |-> tokenLots', remainingToSell |-> None])

\* a purchase whose lot is opened at the value received instead of the price paid
BuyAtValue(tx, leg) ==
  BuyEffect(tx, leg, leg.transactionValueUsd, FMul(leg.transactionValueIdr, PPN_BUY))

Buy(tx, leg) ==
  BuyEffect(tx, leg, FMul(leg.fromAmount, leg.fromPrice),
            FMul(leg.transactionValueIdr, PPN_BUY))

\* BUY: acquiring a token with SOL/USDC
ProcessBuy ==
  /\ InLoop
  /\ IsBuy(NextTx)
  /\ Buy(NextTx, Leg(NextTx))
  /\ idx' = idx + 1
  /\ UNCHANGED <<previous, serviceVars, routerVars, pc, transactions,
                 rateResponses, usdIdrRate, prices, sortedTransactions,
                 summary>>

SellEffect(tx, leg, used, gainLossUsd, gainLossIdr, pphTax) ==
  /\ tokenLots' = StoreLots(tokenLots, leg.fromToken, used.lots)
  /\ totals' = AddSell(totals, leg.transactionValueIdr, gainLossIdr, pphTax)
  /\ results' = Append(results,
                       TaxResult(tx, leg, "sell", used.totalCostUsd, used.totalCostIdr,
                                 gainLossUsd, gainLossIdr, pphTax, FZero))
  /\ history' = Append(history, [lots |-> tokenLots', remainingToSell |-> used.remainingToSell])

SellGain(tx, leg, used, gainLossUsd) ==
  SellEffect(tx, leg, used, gainLossUsd, FMul(gainLossUsd, usdIdrRate),
             FMul(leg.transactionValueIdr, PPH_SELL))

\* a sale whose proceeds are the value received instead of fromAmount * fromPrice
SellUsedAtValue(tx, leg, used) ==
  SellGain(tx, leg, used, FSub(leg.transactionValueUsd, used.totalCostUsd))

SellUsed(tx, leg, used) ==
  SellGain(tx, leg, used,
           FSub(FMul(leg.fromAmount, leg.fromPrice), used.totalCostUsd))

Sell(tx, leg) == SellUsed(tx, leg, Consume(tokenLots, leg.fromToken, leg.fromAmount))

\* SELL: disposing a token for SOL/USDC
ProcessSell ==
  /\ InLoop
  /\ IsSell(NextTx)
  /\ Sell(NextTx, Leg(NextTx))
  /\ idx' = idx + 1
  /\ UNCHANGED <<previous, serviceVars, routerVars, pc, transactions,
                 rateResponses, usdIdrRate, prices, sortedTransactions,
                 summary>>

\* a swap whose new lot carries over the cost basis of the lots given up
SwapCarryingBasis(tx, leg, used, gainLossUsd, gainLossIdr, pphTax) ==
  /\ tokenLots' = PushLot(StoreLots(tokenLots, leg.fromToken, used.lots), leg.toToken,
                          NewLot(leg.toToken, leg.toAmount, used.totalCostUsd,
                                 used.totalCostIdr, tx.timestamp))
  /\ totals' = AddSell(totals, leg.transactionValueIdr, gainLossIdr, pphTax)
  /\ results' = Append(results,
                       TaxResult(tx, leg, "sell", used.totalCostUsd, used.totalCostIdr,
                                 gainLossUsd, gainLossIdr, pphTax, FZero))
  /\ history' = Append(history, [lots |-> tokenLots', remainingToSell |-> used.remainingToSell])

SwapEffect(tx, leg, used, gainLossUsd, gainLossIdr, pphTax) ==
  /\ tokenLots' = PushLot(StoreLots(tokenLots, leg.fromToken, used.lots), leg.toToken,
                          NewLot(leg.toToken, leg.toAmount, leg.transactionValueUsd,
                                 leg.transactionValueIdr, tx.timestamp))
  /\ totals' = AddSell(totals, leg.transactionValueIdr, gainLossIdr, pphTax)
  /\ results' = Append(results,
                       TaxResult(tx, leg, "sell", used.totalCostUsd, used.totalCostIdr,
                                 gainLossUsd, gainLossIdr, pphTax, FZero))
  /\ history' = Append(history, [lots |-> tokenLots', remainingToSell |-> used.remainingToSell])

SwapGain(tx, leg, used, gainLossUsd) ==
  SwapEffect(tx, leg, used, gainLossUsd, FMul(gainLossUsd, usdIdrRate),
             FMul(leg.transactionValueIdr, PPH_SELL))

SwapUsed(tx, leg, used) ==
  SwapGain(tx, leg, used, FSub(leg.transactionValueUsd, used.totalCostUsd))

Swap(tx, leg) == SwapUsed(tx, leg, Consume(tokenLots, leg.fromToken, leg.fromAmount))

\* the else branch: "token to token swap - treat as sell + buy"
ProcessSwap ==
  /\ InLoop
  /\ ~IsBuy(NextTx)
  /\ ~IsSell(NextTx)
  /\ Swap(NextTx, Leg(NextTx))
  /\ idx' = idx + 1
  /\ UNCHANGED <<previous, serviceVars, routerVars, pc, transactions,
                 rateResponses, usdIdrRate, prices, sortedTransactions,
                 summary>>

\* return { totalTransactions: transactions.length, ..., transactions: results }
Return ==
  /\ pc = "loop"
  /\ idx = Len(sortedTransactions)
  /\ summary' = Summary(Len(transactions), totals, results)
  /\ pc' = "done"
  /\ UNCHANGED <<previous, serviceVars, routerVars, transactions, rateResponses,
                 usdIdrRate, prices, sortedTransactions, idx, tokenLots,
                 results, history, totals>>

\* the steps of a lookup
LookupNext ==
  \/ \E i \in DOMAIN lookups : CheckCache(i)
  \/ \E i \in DOMAIN lookups : FetchBirdeyePrice(i)
  \/ \E i \in DOMAIN lookups : ReadBirdeyePrice(i)
  \/ \E i \in DOMAIN lookups : FetchDexScreenerPrice(i)
  \/ \E i \in DOMAIN lookups : ReadDexScreenerPrice(i)
  \/ \E i \in DOMAIN lookups : Save(i)

\* one run of calculateTaxes: a list of more than batchSize tokens takes a
\* second batch of lookups after the pause
Next ==
  \/ ReturnEmpty
  \/ GetUsdToIdrRate
  \/ ReadRate
  \/ GetTokenPrices
  \/ StartBatch
  \/ LookupNext
  \/ EndBatch
  \/ EndPause
  \/ ReceivePrices
  \/ RejectPrices
  \/ SortTransactions
  \/ ProcessBuy
  \/ ProcessSell
  \/ ProcessSwap
  \/ Return

Spec == Init /\ [][Next]_vars

\* one run over a list with an amount of zero or a negative amount, or over
\* a list of six tokens
EdgeInit ==
  \/ \E txs \in EdgeLists : \E w \in EdgeWorlds : Starts(txs, w, <<>>)
  \/ \E txs \in WideLists : Starts(txs, WideWorld, Warm(txs, WideWorld))

EdgeSpec == EdgeInit /\ [][Next]_vars

\* calculateTaxes is called once more with the same list; what the returned
\* call held is still there for the new call to find, were it to look
CallAgain ==
  /\ pc = "done"
  /\ previous = None
  /\ previous' = [rateResponses |-> rateResponses, usdIdrRate |-> usdIdrRate,
                  prices |-> prices, tokenLots |-> tokenLots, summary |-> summary]
  /\ rateResponses' = <<>>
  /\ summary' = None
  /\ pc' = "start"
  /\ UNCHANGED <<serviceVars, routerVars, transactions, usdIdrRate, prices,
                 sortedTransactions, idx, tokenLots, results, history, totals>>

\* the same records in every order
Reorderings(list) ==
  {[k \in 1..Len(list) |-> list[p[k]]] : p \in Permutations(1..Len(list))}

\* the mutation calculateTaxes of the router runs again over the same rows:
\* orderBy(desc(timestamp)) leaves rows of one timestamp in an order the
\* database chooses, and a caller may pass the list in any order
CallPermuted ==
  /\ pc = "done"
  /\ previous = None
  /\ previous' = [rateResponses |-> rateResponses, usdIdrRate |-> usdIdrRate,
                  prices |-> prices, tokenLots |-> tokenLots, summary |-> summary]
  /\ transactions' \in Reorderings(transactions)
  /\ rateResponses' = <<>>
  /\ summary' = None
  /\ pc' = "start"
  /\ UNCHANGED <<serviceVars, routerVars, usdIdrRate, prices,
                 sortedTransactions, idx, tokenLots, results, history, totals>>

NextTwice ==
  \/ Next
  \/ CallAgain

\* the outsides of the runs that are made twice: every price there, with a
\* key for the primary provider and without one, and a database that is down
TwiceWorlds ==
  {World(apiKey, Body(Dec(162505, 1)), {}, "up") : apiKey \in {Null, "key"}}
    \cup {World(Null, Body(Dec(162505, 1)), {}, "down")}

\* the runs that are made twice: every list with the table in place, the
\* second run made three hours after the first; the short lists with the
\* table empty, the second run made three hours after the first or a
\* millisecond later
TwiceInit ==
  \/ \E txs \in InputLists : \E rate \in MainRates :
       Starts(txs, World(Null, rate, {}, "up"), Warm(txs, World(Null, rate, {}, "up")))
  \/ \E txs \in ShortLists : \E w \in TwiceWorlds :
       Starts(txs, w, <<>>) \/ Starts(txs, AfterWindow(w), <<>>)
  \/ \E txs \in WideLists : Starts(txs, WideWorld, Warm(txs, WideWorld))

TwiceSpec == TwiceInit /\ [][NextTwice]_vars

TieInit ==
  \/ \E txs \in TieLists : \E w \in EdgeWorlds :
       Starts(txs, w, <<>>) \/ Starts(txs, AfterWindow(w), <<>>)
  \/ \E txs \in WideLists : Starts(txs, WideWorld, Warm(txs, WideWorld))

NextPermuted ==
  \/ Next
  \/ CallPermuted

PermutedSpec == TieInit /\ [][NextPermuted]_vars

\* the service alone: no tax run under way
PriceInit ==
  \E apiKey \in ApiKeys : Starts(<<>>, AnyWorld(apiKey), <<>>)

\* a call of getTokenPrices alone
BatchInit ==
  \E w \in BatchWorlds : Starts(<<>>, w, <<>>)

\* no run and no lookup under way
IdleInit == Starts(<<>>, AnyWorld(Null), <<>>)

PriceNext ==
  \/ \E i \in 1..MaxLookups : GetTokenPrice(i)
  \/ LookupNext

PriceSpec == PriceInit /\ [][PriceNext]_vars

\* one call of getTokenPrices
BatchNext ==
  \/ CallGetTokenPrices
  \/ StartBatch
  \/ LookupNext
  \/ EndBatch
  \/ EndPause

BatchSpec == BatchInit /\ [][BatchNext]_vars

\* one call of fetchTransactions
FetchNext ==
  \/ FetchTransactions
  \/ RequestPage
  \/ ReadPage
  \/ EndDelay
  \/ InsertTransaction

\* no call under way; the database takes every insert or none
FetchInit ==
  \E database \in {"up", "down"} : Starts(<<>>, World(Null, NotOk, {}, database), <<>>)

FetchSpec == FetchInit /\ [][FetchNext]_vars

\* one call of fetchDexScreenerPrice
PairsNext ==
  \/ FetchPairs
  \/ ReadPairs

PairsSpec == IdleInit /\ [][PairsNext]_vars

----------------------------------------------------------------------------
(* The run seen from its results: results[k] is the result of the k-th record
   handled, history[k] the ledger it left and the amount it could not match *)

Handled == Len(results)

LedgerBefore(k) == IF k = 1 THEN <<>> ELSE history[k - 1].lots
LedgerAfter(k) == history[k].lots
QueueBefore(k, token) == LotsOf(LedgerBefore(k), token)
QueueAfter(k, token) == LotsOf(LedgerAfter(k), token)

\* the four kinds of record, told by the two tokens of the result
IsAcquisition(r) == IsStableOrSol(r.fromToken) /\ ~IsStableOrSol(r.toToken)
IsDisposal(r) == ~IsStableOrSol(r.fromToken) /\ IsStableOrSol(r.toToken)
IsTokenToToken(r) == ~IsStableOrSol(r.fromToken) /\ ~IsStableOrSol(r.toToken)
IsBothBase(r) == IsStableOrSol(r.fromToken) /\ IsStableOrSol(r.toToken)

\* every record but an acquisition draws on the queue of its from token
Consumes(r) == ~IsAcquisition(r)

\* the queues of all tokens but those of toks are what they were before record k
OtherQueuesSame(k, toks) ==
  \A t \in (DOMAIN LedgerBefore(k) \cup DOMAIN LedgerAfter(k)) \ toks :
    QueueAfter(k, t) = QueueBefore(k, t)

\* the rates as the README states them: 0.2% on sells, 0.22% on buys
SellRate == Number(Dec(2, 3))
BuyRate == Number(Dec(22, 4))

\* (toAmount x toPrice) converted to local currency
ValueLocal(r) == FMul(FMul(r.toAmount, r.toPriceUsd), r.usdIdrRate)

(* exact arithmetic on non-negative numbers: [m, e] stands for m * 2^e *)

ExactZero == [m |-> <<>>, e |-> 0]
ExactOf(a) == [m |-> a.m, e |-> a.e]
MinExp(x, y) == IF x.e < y.e THEN x.e ELSE y.e
AlignedAt(x, e) == BigShl(x.m, x.e - e)
ExactAddAt(x, y, e) == [m |-> BigAdd(AlignedAt(x, e), AlignedAt(y, e)), e |-> e]
ExactAdd(x, y) == ExactAddAt(x, y, MinExp(x, y))
ExactSubAt(x, y, e) == [m |-> BigSub(AlignedAt(x, e), AlignedAt(y, e)), e |-> e]
\* x - y for x >= y
ExactSub(x, y) == ExactSubAt(x, y, MinExp(x, y))
ExactCmp(x, y) == BigCmp(AlignedAt(x, MinExp(x, y)), AlignedAt(y, MinExp(x, y)))
ExactMul(x, y) == [m |-> BigMul(x.m, y.m), e |-> x.e + y.e]

RECURSIVE ExactAmounts(_)
\* the sum of the amounts of the lots of a queue
ExactAmounts(q) ==
  IF Len(q) = 0 THEN ExactZero
  ELSE ExactAdd(ExactOf(q[1].amount), ExactAmounts(Tail(q)))

\* the lots of a queue as pairs <<amount, USD cost basis>>
AmountsAndBases(q) == [i \in 1..Len(q) |-> <<q[i].amount, q[i].costBasisUsd>>]

----------------------------------------------------------------------------
(* FIFO order *)

NoEarlierDisposal(k, token) ==
  \A i \in 1..(k - 1) : ~(Consumes(results[i]) /\ results[i].fromToken = token)

\* record k disposes of at most the first of two or more untouched lots
C1_Case(k, r, q) ==
  /\ Consumes(r)
  /\ Len(q) >= 2
  /\ q[1].timestamp < q[2].timestamp
  /\ NoEarlierDisposal(k, r.fromToken)
  /\ FGt(q[1].amount, FZero)
  /\ FLe(r.fromAmount, q[1].amount)

C1_Outcome(r, q, after) ==
  /\ r.costBasisUsd = FMul(q[1].costBasisUsd, FDiv(r.fromAmount, q[1].amount))
  /\ r.costBasisIdr = FMul(q[1].costBasisIdr, FDiv(r.fromAmount, q[1].amount))
  /\ IF FCmp(r.fromAmount, q[1].amount) = 0
     THEN Len(after) >= 1 /\ after[1] = q[2]
     ELSE Len(after) >= 2 /\ after[2] = q[2]

C1_At(k, r) ==
  C1_Case(k, r, QueueBefore(k, r.fromToken))
    => C1_Outcome(r, QueueBefore(k, r.fromToken), QueueAfter(k, r.fromToken))

\* C1: with lots A1 (t1, q1) and A2 (t2, q2) of a token, t1 < t2, and no earlier
\* disposal of the token, a disposal of d <= q1 reports as cost basis d/q1 of
\* the basis of A1 and leaves the amount and the cost basis of A2 unchanged.
C1_FifoOrder == \A k \in 1..Handled : C1_At(k, results[k])

\* 8 of 10 units are sold after purchases of 10 and of 5: cost basis 800,000
C1_Witness ==
  /\ Handled >= 3
  /\ C1_Case(Handled, results[Handled], QueueBefore(Handled, results[Handled].fromToken))
  /\ results[Handled].fromAmount = FromInt(8)
  /\ results[Handled].costBasisUsd = FromInt(800000)
  /\ QueueAfter(Handled, results[Handled].fromToken)[2].amount = FromInt(5)

----------------------------------------------------------------------------
(* The reference FIFO result *)

\* the lots of the example: 10 units at 1,000,000 and 5 units at 600,000
C2_ExampleQueue(q) ==
  AmountsAndBases(q) = << <<FromInt(10), FromInt(1000000)>>,
                          <<FromInt(5), FromInt(600000)>> >>

C2_ExampleAt(k, r) ==
  (Consumes(r) /\ C2_ExampleQueue(QueueBefore(k, r.fromToken))
     /\ r.fromAmount = FromInt(8))
    => /\ r.costBasisUsd = FromInt(800000)
       /\ AmountsAndBases(QueueAfter(k, r.fromToken))
            = << <<FromInt(2), FromInt(200000)>>, <<FromInt(5), FromInt(600000)>> >>

\* C2: the cost basis a disposal consumes is the reference FIFO result; in
\* particular lots [10 units, basis 1,000,000] and [5 units, basis 600,000]
\* followed by a disposal of 8 units give cost basis 800,000 and leave the
\* lots [2, 200,000] and [5, 600,000].
C2_ReferenceFifo == \A k \in 1..Handled : C2_ExampleAt(k, results[k])

----------------------------------------------------------------------------
(* Proportional split *)

\* the record opened a lot for token: an acquisition, or a swap of the else branch
Opens(r, token) == r.toToken = token /\ ~IsDisposal(r)

\* the results that opened the lots of token, oldest first
OpenedBy(token) == SelectSeq(results, LAMBDA r : Opens(r, token))

\* the cost basis the lot of r was created with
OpenedBasisUsd(r) ==
  IF IsAcquisition(r) THEN FMul(r.fromAmount, r.fromPriceUsd) ELSE r.transactionValueUsd
OpenedBasisIdr(r) ==
  IF IsAcquisition(r) THEN FMul(FMul(r.fromAmount, r.fromPriceUsd), r.usdIdrRate)
  ELSE r.transactionValueIdr

\* basis / amount = basis0 / amount0, compared as exact ratios
SameRatio(basis, amount, basis0, amount0) ==
  ExactCmp(ExactMul(ExactOf(basis), ExactOf(amount0)),
           ExactMul(ExactOf(basis0), ExactOf(amount))) = 0

C3_Lot(lot, r) ==
  /\ SameRatio(lot.costBasisUsd, lot.amount, OpenedBasisUsd(r), r.toAmount)
  /\ SameRatio(lot.costBasisIdr, lot.amount, OpenedBasisIdr(r), r.toAmount)

\* a queue holds the newest of the lots opened for its token, in their order
C3_Queue(q, opened) ==
  \A j \in 1..Len(q) : C3_Lot(q[j], opened[Len(opened) - Len(q) + j])

\* C3: for every lot that remains in a queue the ratio costBasis/amount (USD
\* and local) is the same, after any partial consumptions, as when the lot
\* was created.
C3_ProportionalSplit ==
  \A token \in DOMAIN tokenLots : C3_Queue(tokenLots[token], OpenedBy(token))

----------------------------------------------------------------------------
(* Conservation of amounts *)

RECURSIVE MatchedIn(_, _)
\* the amount the walk of lines 196-215 matches against the lots of q: the
\* amount of every lot used entirely, and what was still requested of the
\* lot used in part
MatchedIn(q, remainingToSell) ==
  IF ~(FGt(remainingToSell, FZero) /\ Len(q) > 0) THEN ExactZero
  ELSE IF FLe(q[1].amount, remainingToSell)
       THEN ExactAdd(ExactOf(q[1].amount),
                     MatchedIn(Tail(q), FSub(remainingToSell, q[1].amount)))
       ELSE ExactOf(remainingToSell)

RECURSIVE ExactMatched(_, _)
\* the amounts of token matched against lots by the first k records
ExactMatched(k, token) ==
  IF k = 0 THEN ExactZero
  ELSE ExactAdd(ExactMatched(k - 1, token),
                IF Consumes(results[k]) /\ results[k].fromToken = token
                THEN MatchedIn(QueueBefore(k, token), results[k].fromAmount)
                ELSE ExactZero)

RECURSIVE ExactOpened(_, _)
\* the amounts of the lots the first k records opened for token
ExactOpened(k, token) ==
  IF k = 0 THEN ExactZero
  ELSE ExactAdd(ExactOpened(k - 1, token),
                IF Opens(results[k], token) THEN ExactOf(results[k].toAmount)
                ELSE ExactZero)

TokensSeen ==
  {results[i].fromToken : i \in 1..Handled} \cup {results[i].toToken : i \in 1..Handled}

\* C4: for every token the sum of the amounts remaining in its queue plus the
\* sum of the amounts matched against lots by disposals equals the sum of
\* the amounts of all lots ever opened for the token.
C4_Conservation ==
  \A token \in TokensSeen :
    ExactCmp(ExactAdd(ExactAmounts(LotsOf(tokenLots, token)), ExactMatched(Handled, token)),
             ExactOpened(Handled, token)) = 0

----------------------------------------------------------------------------
(* Unmatched disposals *)

RECURSIVE SumBasesUsd(_, _)
SumBasesUsd(q, acc) ==
  IF Len(q) = 0 THEN acc ELSE SumBasesUsd(Tail(q), FAdd(acc, q[1].costBasisUsd))

RECURSIVE SumBasesIdr(_, _)
SumBasesIdr(q, acc) ==
  IF Len(q) = 0 THEN acc ELSE SumBasesIdr(Tail(q), FAdd(acc, q[1].costBasisIdr))

\* fromAmount x fromPrice for a sale, the value received for a swap
Proceeds(r) ==
  IF IsDisposal(r) THEN FMul(r.fromAmount, r.fromPriceUsd) ELSE r.transactionValueUsd

\* the record asks for more of its from token than the queue q holds
C5_Case(r, q) ==
  Consumes(r) /\ ExactCmp(ExactOf(r.fromAmount), ExactAmounts(q)) > 0

C5_Outcome(r, q, after) ==
  /\ r.toToken # r.fromToken => after = <<>>
  /\ r.costBasisUsd = SumBasesUsd(q, FZero)
  /\ r.costBasisIdr = SumBasesIdr(q, FZero)
  /\ r.gainLossUsd = FSub(Proceeds(r), r.costBasisUsd)

C5_At(k, r) ==
  C5_Case(r, QueueBefore(k, r.fromToken))
    => C5_Outcome(r, QueueBefore(k, r.fromToken), QueueAfter(k, r.fromToken))

\* C5: a disposal that requests more of a token than its queue holds (an
\* empty or absent queue included) leaves the queue empty, reports as cost
\* basis the sum of the bases of the lots that were available, and as gain
\* the proceeds minus that basis.
C5_UnmatchedDisposal == \A k \in 1..Handled : C5_At(k, results[k])

----------------------------------------------------------------------------
(* Ordering *)

Ascending(seq) ==
  \A i, j \in 1..Len(seq) : i < j => seq[i].timestamp <= seq[j].timestamp

SameRecords(a, b) ==
  Len(a) = Len(b) /\ {a[i] : i \in 1..Len(a)} = {b[i] : i \in 1..Len(b)}

\* C6: whatever the order of the input list, the records are handled in
\* ascending timestamp order: of two records with t1 < t2 the result and the
\* ledger effects of the first come before those of the second, and the
\* results list of the summary is in ascending timestamp order.
C6_Ordering ==
  /\ pc \in {"loop", "done"} /\ Len(transactions) > 0
       => Ascending(sortedTransactions) /\ SameRecords(sortedTransactions, transactions)
  /\ Len(history) = Handled
  /\ \A k \in 1..Handled : /\ results[k].signature = sortedTransactions[k].signature
                           /\ results[k].timestamp = sortedTransactions[k].timestamp
  /\ \A i, j \in 1..Handled : results[i].timestamp < results[j].timestamp => i < j
  /\ pc = "done" => /\ Len(summary.transactions) = Len(transactions)
                    /\ Ascending(summary.transactions)
                    /\ Len(transactions) > 0 => summary.transactions = results

\* a run on a list given newest first, as the router passes it, has returned
C6_Witness ==
  /\ pc = "done"
  /\ Len(transactions) >= 3
  /\ \A i, j \in 1..Len(transactions) :
       i < j => transactions[i].timestamp > transactions[j].timestamp
  /\ Ascending(summary.transactions)
  /\ summary.transactions[1].signature = transactions[Len(transactions)].signature

----------------------------------------------------------------------------
(* Classification *)

C7_Outcome(k, r, before, after) ==
  /\ r.type = "buy"
  /\ Len(after) = Len(before) + 1
  /\ SubSeq(after, 1, Len(before)) = before
  /\ after[Len(after)].amount = r.toAmount
  /\ after[Len(after)].costBasisUsd = FMul(r.fromAmount, r.fromPriceUsd)
  /\ OtherQueuesSame(k, {r.toToken})
  /\ r.costBasisUsd = FZero /\ r.costBasisIdr = FZero
  /\ r.gainLossUsd = FZero /\ r.gainLossIdr = FZero
  /\ r.ppnTax = FMul(ValueLocal(r), BuyRate)
  /\ r.pphTax = FZero
  /\ r.totalTax = r.ppnTax

C7_At(k, r) ==
  IsAcquisition(r)
    => C7_Outcome(k, r, QueueBefore(k, r.toToken), QueueAfter(k, r.toToken))

\* C7: a record from a base token to a token that is none is a buy: it
\* appends one lot to the queue of the to token, with amount toAmount and
\* cost basis fromAmount x fromPrice, consumes no lot, reports cost basis 0
\* and gain/loss 0, and is charged only the buy-side tax, 0.22% of
\* (toAmount x toPrice) in local currency, the sell-side tax being 0.
C7_Acquisition == \A k \in 1..Handled : C7_At(k, results[k])

\* a second purchase of a token has been handled and taxed
C7_Witness ==
  /\ Handled >= 2
  /\ IsAcquisition(results[Handled])
  /\ Len(QueueAfter(Handled, results[Handled].toToken)) = 2
  /\ FGt(results[Handled].ppnTax, FZero)
  /\ FGt(QueueAfter(Handled, results[Handled].toToken)[2].costBasisUsd, FZero)

\* the walk of record r over the ledger before it
WalkOf(k, r) == Consume(LedgerBefore(k), r.fromToken, r.fromAmount)

C8_Outcome(k, r, used) ==
  /\ r.type = "sell"
  /\ QueueAfter(k, r.fromToken) = used.lots
  /\ r.costBasisUsd = used.totalCostUsd
  /\ r.costBasisIdr = used.totalCostIdr
  /\ r.gainLossUsd = FSub(FMul(r.fromAmount, r.fromPriceUsd), r.costBasisUsd)
  /\ DOMAIN LedgerAfter(k) = DOMAIN LedgerBefore(k)
  /\ OtherQueuesSame(k, {r.fromToken})
  /\ r.pphTax = FMul(ValueLocal(r), SellRate)
  /\ r.ppnTax = FZero
  /\ r.totalTax = r.pphTax

C8_At(k, r) == IsDisposal(r) => C8_Outcome(k, r, WalkOf(k, r))

\* C8: a record from a token that is no base token to a base token is a
\* sell: it consumes fromAmount from the queue of the from token, reports
\* gain/loss = fromAmount x fromPrice minus the consumed cost basis, opens no
\* lot, and is charged only the sell-side tax, 0.2% of (toAmount x toPrice)
\* in local currency, the buy-side tax being 0.
C8_Disposal == \A k \in 1..Handled : C8_At(k, results[k])

\* a sale paid in SOL has consumed lots; its proceeds differ from the value received
C8_Witness ==
  /\ Handled >= 2
  /\ IsDisposal(results[Handled])
  /\ FGt(results[Handled].costBasisUsd, FZero)
  /\ FGt(results[Handled].pphTax, FZero)
  /\ FMul(results[Handled].fromAmount, results[Handled].fromPriceUsd)
       # results[Handled].transactionValueUsd
  /\ Len(QueueAfter(Handled, results[Handled].fromToken))
       < Len(QueueBefore(Handled, results[Handled].fromToken))

\* what the else branch does with record r
ElseBranchOutcome(k, r, used, after) ==
  /\ r.type = "sell"
  /\ Cardinality({i \in 1..Handled : results[i].signature = r.signature}) = 1
  /\ r.costBasisUsd = used.totalCostUsd
  /\ r.costBasisIdr = used.totalCostIdr
  /\ r.toToken # r.fromToken => QueueAfter(k, r.fromToken) = used.lots
  /\ Len(after) >= 1
  /\ SubSeq(after, 1, Len(after) - 1)
       = (IF r.toToken = r.fromToken THEN used.lots ELSE QueueBefore(k, r.toToken))
  /\ after[Len(after)].amount = r.toAmount
  /\ after[Len(after)].costBasisUsd = FMul(r.toAmount, r.toPriceUsd)
  /\ after[Len(after)].costBasisIdr = FMul(FMul(r.toAmount, r.toPriceUsd), r.usdIdrRate)
  /\ OtherQueuesSame(k, {r.fromToken, r.toToken})
  /\ r.gainLossUsd = FSub(after[Len(after)].costBasisUsd, r.costBasisUsd)
  /\ r.pphTax = FMul(ValueLocal(r), SellRate)
  /\ r.ppnTax = FZero
  /\ r.totalTax = r.pphTax

C9_At(k, r) ==
  IsTokenToToken(r) => ElseBranchOutcome(k, r, WalkOf(k, r), QueueAfter(k, r.toToken))

\* C9: a swap between two tokens that are no base tokens gives one result,
\* classified and taxed as a sell (sell-side tax only), consumes fromAmount
\* from the queue of the from token, and appends one lot for the to token
\* with amount toAmount, USD basis the USD value of the transaction and
\* local basis that value in local currency; the proceeds of the realized
\* gain are the basis of the new lot.
C9_TokenToToken == \A k \in 1..Handled : C9_At(k, results[k])

\* a swap into a priced token has consumed a lot and opened one
C9_Witness ==
  /\ Handled >= 2
  /\ IsTokenToToken(results[Handled])
  /\ FGt(results[Handled].costBasisUsd, FZero)
  /\ FGt(results[Handled].transactionValueUsd, FZero)
  /\ Len(QueueAfter(Handled, results[Handled].toToken)) = 1
  /\ Len(QueueAfter(Handled, results[Handled].fromToken)) = 1

----------------------------------------------------------------------------
(* Both legs base tokens *)

C10_AsDisposalAt(k, r) == IsBothBase(r) => C8_Outcome(k, r, WalkOf(k, r))

\* C10 as stated: a record whose two legs are base tokens is handled exactly
\* as the disposal rule handles a record (a sell, the lots of the from token
\* consumed, gain = fromAmount x fromPrice minus the consumed basis,
\* sell-side tax only) and changes the ledger in no other way.
C10_AsDisposal == \A k \in 1..Handled : C10_AsDisposalAt(k, results[k])

C10_At(k, r) ==
  IsBothBase(r) => ElseBranchOutcome(k, r, WalkOf(k, r), QueueAfter(k, r.toToken))

\* C10 as the code has it: a record whose two legs are base tokens takes the
\* else branch, that of token-to-token swaps: a sell with sell-side tax only,
\* the lots of the from token consumed, gain = (toAmount x toPrice) minus the
\* consumed basis, and one lot opened for the to token, a base token, with
\* amount toAmount and basis the value of the transaction.
C10_BothBase == \A k \in 1..Handled : C10_At(k, results[k])

\* SOL has been swapped for USDC: a USDC lot exists and the gain is not
\* fromAmount x fromPrice minus the consumed basis
C10_Witness ==
  /\ Handled >= 1
  /\ IsBothBase(results[Handled])
  /\ Len(QueueAfter(Handled, results[Handled].toToken)) = 1
  /\ IsStableOrSol(QueueAfter(Handled, results[Handled].toToken)[1].tokenAddress)
  /\ results[Handled].gainLossUsd
       # FSub(FMul(results[Handled].fromAmount, results[Handled].fromPriceUsd),
              results[Handled].costBasisUsd)

----------------------------------------------------------------------------
(* Data gaps *)

\* the batch lookup found no price for the token
Unpriced(token) == token \in DOMAIN prices /\ prices[token].priceUsd = None

SignaturesOf(seq) == {seq[i].signature : i \in 1..Len(seq)}

\* what every state of a run shows about records without a price
C11_Always ==
  /\ \A k \in 1..Handled :
       /\ Unpriced(results[k].toToken)
            => /\ results[k].toPriceUsd = FZero
               /\ results[k].transactionValueUsd = FZero
               /\ results[k].transactionValueIdr = FZero
       /\ Unpriced(results[k].fromToken) => results[k].fromPriceUsd = FZero
  /\ pc = "done"
       => /\ Len(summary.transactions) = Len(transactions)
          /\ SignaturesOf(summary.transactions) = SignaturesOf(transactions)
          /\ \A i, j \in 1..Len(summary.transactions) :
               summary.transactions[i].signature = summary.transactions[j].signature
                 => i = j
          /\ summary.totalTransactions = Len(summary.transactions)
          /\ summary.totalTransactions = summary.totalBuys + summary.totalSells

\* a lookup that waits for an answer of the database or of a provider
Waits(l) ==
  l.pc \in {"checkCache", "birdeye", "birdeyeJson", "dexscreener",
            "dexscreenerJson", "save"}

\* the guards of the steps of a run: one of them holds wherever the run has a
\* next step to take (every step is a guard and assignments; an answer that
\* is waited for comes)
HasStep ==
  \/ pc = "start"
  \/ pc = "rate"
  \/ pc = "prices" /\ batch.pc = "idle"
  \/ pc = "getTokenPrices" /\ batch.pc \in {"batch", "pause", "done", "threw"}
  \/ pc = "getTokenPrices" /\ batch.pc = "await"
       /\ (batch.pending = {} \/ \E i \in batch.pending : Waits(lookups[i]))
  \/ pc = "sort"
  \/ InLoop /\ (IsBuy(NextTx) \/ IsSell(NextTx) \/ (~IsBuy(NextTx) /\ ~IsSell(NextTx)))
  \/ pc = "loop" /\ idx = Len(sortedTransactions)

\* the run rejected because the select of a lookup failed
RejectedBySelect ==
  \E i \in DOMAIN lookups : lookups[i].pc = "threw" /\ lookups[i].errors = {"select"}

\* C11: a token without a price never aborts a run. Whatever the input list
\* and whichever of its tokens have a null price, the run has a next step in
\* every state short of its end, it rejects only when the select of a lookup
\* failed, and it returns one result per input record, with the signatures
\* of the input and as many results as records; totalTransactions =
\* totalBuys + totalSells = the number of results; a leg whose token has a
\* null price is priced at zero, and the value of the record, taken from the
\* received leg, is then zero in USD and in IDR.
C11_DataGaps ==
  /\ pc \notin {"done", "threw"} => HasStep
  /\ pc = "threw" => RejectedBySelect
  /\ C11_Always

\* a run has returned whose records both gave and received a token that has
\* no price
C11_Witness ==
  /\ pc = "done"
  /\ Len(transactions) >= 3
  /\ \E k \in 1..Handled : Unpriced(results[k].toToken)
                           /\ results[k].toAmount # FZero
                           /\ results[k].transactionValueIdr = FZero
  /\ \E k \in 1..Handled : Unpriced(results[k].fromToken)
                           /\ results[k].fromPriceUsd = FZero
  /\ summary.totalTransactions = Len(transactions)

----------------------------------------------------------------------------
(* Summary totals *)

RECURSIVE SumTotalTax(_, _)
\* the totalTax values of the first n results added up in the order of the
\* results, as numbers of the program
SumTotalTax(res, n) ==
  IF n = 0 THEN FZero ELSE FAdd(SumTotalTax(res, n - 1), res[n].totalTax)

\* C12: in every returned summary totalTax is the sum of the totalTax values
\* of its results and is totalPphTax + totalPpnTax; totalGainIdr and
\* totalLossIdr are not negative (a loss is held as a positive magnitude);
\* netGainLossIdr = totalGainIdr - totalLossIdr.
C12_SummaryTotals ==
  pc = "done"
    => /\ summary.totalTax
            = SumTotalTax(summary.transactions, Len(summary.transactions))
       /\ summary.totalTax = FAdd(summary.totalPphTax, summary.totalPpnTax)
       /\ ~summary.totalGainIdr.neg
       /\ ~summary.totalLossIdr.neg
       /\ summary.netGainLossIdr = FSub(summary.totalGainIdr, summary.totalLossIdr)

----------------------------------------------------------------------------
(* Repeated calls *)

\* the second run was given the price of every token that the first was given
SamePrices ==
  /\ DOMAIN prices = DOMAIN previous.prices
  /\ \A token \in DOMAIN prices :
       prices[token].priceUsd = previous.prices[token].priceUsd

\* C13: calling calculateTaxes a second time with the same list, the rate and
\* the prices standing as they were, returns a summary identical to the
\* first; nothing of the first run's ledger is there when the second run
\* starts its loop: the lot queues, the results and the totals are empty.
C13_Idempotence ==
  /\ previous # None /\ pc = "loop" /\ idx = 0
       => tokenLots = <<>> /\ results = <<>> /\ totals = ZeroTotals
  /\ previous # None /\ pc = "done" /\ SamePrices => summary = previous.summary

\* a second call has returned; the first had left lots in its queues
C13_Witness ==
  /\ previous # None
  /\ pc = "done"
  /\ Len(transactions) >= 3
  /\ \E token \in DOMAIN previous.tokenLots : Len(previous.tokenLots[token]) > 0
  /\ SamePrices
  /\ \E token \in DOMAIN prices : prices[token].cached
  /\ summary = previous.summary
  /\ summary.totalSells > 0

----------------------------------------------------------------------------
(* The price waterfall *)
(* lookups[i].asked lists, in order, what call i asked of the database and of
   the providers; stored is the row its insert added *)

Started == DOMAIN lookups

IsMajor(l) == l.token \in MAJOR_TOKENS

HasAsked(l, op) == \E k \in 1..Len(l.asked) : l.asked[k] = op

\* the row the call added is in the table and holds the call's token and
\* timestamp, the price found at eight decimals, and the name of the source
Wrote(l, price, source) ==
  /\ \E k \in 1..Len(cache) : cache[k] = l.stored
  /\ l.stored.tokenAddress = l.token
  /\ l.stored.timestamp = l.timestamp
  /\ l.stored.priceUsd = Numeric8(price)
  /\ l.stored.source = source

C14_At(l) ==
  /\ ~HasAsked(l, "dexscreener")
  /\ l.asked[Len(l.asked)] = "birdeye" => l.asked \in {<<"birdeye">>, <<"select", "birdeye">>}
  /\ l.pc = "done"
       => /\ l.result = PriceResult(NumberOf(l.birdeyePrice), "birdeye", FALSE)
          /\ IsMajor(l) => /\ l.asked = <<"select", "birdeye", "insert">>
                           /\ l.stored # None => Wrote(l, l.birdeyePrice, "birdeye")
          /\ ~IsMajor(l) => l.asked = <<"birdeye">> /\ l.stored = None

\* C14: a call that did not hit the cache (or whose token is not major) asks
\* the primary provider before any other; when the provider gives a price the
\* call returns it with source = birdeye and cached = false without asking
\* the secondary provider, and it issues the cache write, for its token and
\* timestamp, exactly when the token is major (the row is then in the table
\* unless the insert failed).
C14_PrimarySuccess ==
  \A i \in Started : lookups[i].birdeyePrice # None => C14_At(lookups[i])

\* a major token and a token that is not major have both been priced by the
\* primary provider; the first is in the cache
C14_Witness ==
  \E i, j \in Started :
    /\ lookups[i].pc = "done" /\ lookups[j].pc = "done"
    /\ IsMajor(lookups[i]) /\ lookups[i].birdeyePrice # None
    /\ lookups[i].stored # None /\ Len(cache) = 1
    /\ ~IsMajor(lookups[j]) /\ lookups[j].birdeyePrice # None
    /\ lookups[j].result.source = "birdeye"

\* the position of the first request of kind op in the list, 0 if there is none
FirstAsked(l, op) ==
  IF HasAsked(l, op) THEN CHOOSE k \in 1..Len(l.asked) :
                            l.asked[k] = op /\ \A j \in 1..(k - 1) : l.asked[j] # op
  ELSE 0

\* what a call asks before the secondary provider: the table for a major
\* token, and the primary provider when there is a key for it
AskedFirst(l) ==
  (IF IsMajor(l) THEN <<"select">> ELSE <<>>)
    \o (IF HasApiKey(world.apiKey) THEN <<"birdeye">> ELSE <<>>)

C15_At(l) ==
  /\ l.birdeyePrice = None
  /\ l.pc # "birdeyeJson"
  /\ HasApiKey(world.apiKey)
       => HasAsked(l, "birdeye")
            /\ FirstAsked(l, "birdeye") < FirstAsked(l, "dexscreener")
  /\ ~HasApiKey(world.apiKey) => ~HasAsked(l, "birdeye")
  /\ l.pc = "done" /\ l.dexPrice # None
       => /\ l.result = PriceResult(NumberOf(l.dexPrice), "dexscreener", FALSE)
          /\ IsMajor(l) => /\ l.asked = AskedFirst(l) \o <<"dexscreener", "insert">>
                           /\ l.stored # None => Wrote(l, l.dexPrice, "dexscreener")
          /\ ~IsMajor(l) => l.asked = AskedFirst(l) \o <<"dexscreener">>
                              /\ l.stored = None

\* C15: the secondary provider is asked only after fetchBirdeyePrice gave no
\* price: after its request was answered without one or failed, or, when
\* there is no key for the primary provider, after it returned null without
\* a request; a price the secondary provider gives is returned with source
\* = dexscreener and cached = false, and the cache write is issued for the
\* call's token and timestamp exactly when the token is major (the row is
\* then in the table unless the insert failed).
C15_SecondarySuccess ==
  \A i \in Started : HasAsked(lookups[i], "dexscreener") => C15_At(lookups[i])

\* a major token and a token that is not major have both been priced by the
\* secondary provider after the primary provider was asked; the first is in
\* the cache
C15_Witness ==
  \E i, j \in Started :
    /\ lookups[i].pc = "done" /\ lookups[j].pc = "done"
    /\ HasAsked(lookups[i], "birdeye") /\ HasAsked(lookups[j], "birdeye")
    /\ IsMajor(lookups[i]) /\ lookups[i].dexPrice # None
    /\ lookups[i].stored # None /\ lookups[i].stored.source = "dexscreener"
    /\ ~IsMajor(lookups[j]) /\ lookups[j].dexPrice # None
    /\ lookups[j].result.source = "dexscreener"

\* C17: when the cache did not hit and neither provider gives a price, the
\* call returns priceUsd = null with source = none and cached = false; it
\* does not reject, and it issues no cache write.
C17_NoPrice ==
  \A i \in Started :
    /\ HasAsked(lookups[i], "dexscreener")
    /\ lookups[i].pc # "dexscreenerJson"
    /\ lookups[i].birdeyePrice = None
    /\ lookups[i].dexPrice = None
    => /\ lookups[i].pc = "done"
       /\ lookups[i].result = PriceResult(None, "none", FALSE)
       /\ ~HasAsked(lookups[i], "insert")
       /\ lookups[i].stored = None

\* a major token and a token that is not major have both been given up on,
\* and the cache is empty
C17_Witness ==
  \E i, j \in Started :
    /\ IsMajor(lookups[i]) /\ ~IsMajor(lookups[j])
    /\ lookups[i].result = PriceResult(None, "none", FALSE)
    /\ lookups[j].result = PriceResult(None, "none", FALSE)
    /\ lookups[i].asked = <<"select", "birdeye", "dexscreener">>
    /\ cache = <<>>

\* the row holds the token of the call and a time no more than the cache
\* duration before or after the time of the call
WithinTolerance(row, l) ==
  /\ row.tokenAddress = l.token
  /\ row.timestamp - l.timestamp <= CACHE_DURATION_MS
  /\ l.timestamp - row.timestamp <= CACHE_DURATION_MS

\* the rows in the table when the call selected (rows are only ever added)
RowsSeen(l) == {cache[k] : k \in 1..l.seen}

\* the select of a call for a major token came back, and a row written by an
\* earlier call lay within the tolerance of its time
C16_Case(l) ==
  /\ IsMajor(l)
  /\ HasAsked(l, "select")
  /\ l.pc # "threw"
  /\ \E row \in RowsSeen(l) : WithinTolerance(row, l)

\* the call returned the price of such a row, marked as cached, under the
\* source name given, and asked no provider
C16_Returned(l, source) ==
  /\ l.pc = "done"
  /\ l.asked = <<"select">>
  /\ l.found \in RowsSeen(l)
  /\ WithinTolerance(l.found, l)
  /\ l.result = PriceResult(NumberOf(l.found.priceUsd), source, TRUE)

\* C16 as stated: after a call for a major token has written a quote, a later
\* call for that token at a time within the tolerance window of the stored one
\* returns the stored price with source = cache and cached = true and asks
\* neither provider.
C16_SourceCache ==
  \A i \in Started : C16_Case(lookups[i]) => C16_Returned(lookups[i], "cache")

\* C16: after a call for a major token has written a quote, a later call for
\* that token at a time within the tolerance window of the stored one returns
\* the price of a stored row of the window with cached = true and with the
\* source the row was stored with, and asks neither provider.
C16_CacheHit ==
  \A i \in Started :
    C16_Case(lookups[i]) => C16_Returned(lookups[i], lookups[i].found.source)

\* a call made three hours after the call that stored the row has returned the
\* row's price, which is not the number the storing call returned
C16_Witness ==
  \E i, j \in Started :
    /\ lookups[i].stored # None
    /\ lookups[j].found = lookups[i].stored
    /\ lookups[j].timestamp = lookups[i].timestamp + CACHE_DURATION_MS
    /\ lookups[j].pc = "done"
    /\ lookups[j].result.cached
    /\ lookups[j].result.source = "birdeye"
    /\ lookups[j].result.priceUsd # lookups[i].result.priceUsd

----------------------------------------------------------------------------
(* The cache *)

\* C18: a call for a token outside the major set never reads the cache and
\* never writes it: it issues no select and no insert, every row of the table
\* is a row of a major token, and as long as only tokens outside the major
\* set have been looked up the table is as it was, empty.
C18_NonMajorFrame ==
  /\ \A i \in Started :
       ~IsMajor(lookups[i])
         => /\ ~HasAsked(lookups[i], "select")
            /\ ~HasAsked(lookups[i], "insert")
            /\ lookups[i].found = None
            /\ lookups[i].stored = None
            /\ lookups[i].pc # "save"
  /\ \A k \in 1..Len(cache) : cache[k].tokenAddress \in MAJOR_TOKENS
  /\ (\A i \in Started : ~IsMajor(lookups[i])) => cache = <<>>

\* a token outside the major set has been priced while the cache held the
\* row of another call, and holds nothing else
C18_Witness ==
  \E i, j \in Started :
    /\ ~IsMajor(lookups[j]) /\ lookups[j].pc = "done"
    /\ lookups[j].result.priceUsd # None
    /\ lookups[i].stored # None
    /\ cache = <<lookups[i].stored>>

\* C19: once a row is stored no later call modifies or deletes it: every step
\* leaves every row of the table as it is and where it is, and can only add
\* rows behind them, so the row first written for a token and timestamp stays.
C19_AddOnly ==
  [][/\ Len(cache') >= Len(cache)
     /\ \A k \in 1..Len(cache) : cache'[k] = cache[k]]_vars

\* a second row has been written behind the first
C19_Witness ==
  /\ Len(cache) = 2
  /\ Len(lookups) = 2
  /\ \A i \in 1..2 : lookups[i].pc = "done" /\ lookups[i].stored # None
  /\ cache[1] = lookups[1].stored \/ cache[1] = lookups[2].stored

\* C20: whatever the interleaving of concurrent calls for the same major token
\* and timestamp, a write that finds a row stored for that token and timestamp
\* is ignored: the table never holds two rows for one token and timestamp.
C20_OneRowPerKey ==
  \A j, k \in 1..Len(cache) :
    cache[j].tokenAddress = cache[k].tokenAddress /\ cache[j].timestamp = cache[k].timestamp
      => j = k

\* the quote of what the providers gave a call
QuoteFound(l) ==
  IF l.birdeyePrice # None
  THEN PriceResult(NumberOf(l.birdeyePrice), "birdeye", FALSE)
  ELSE PriceResult(NumberOf(l.dexPrice), "dexscreener", FALSE)

\* C21: a request to a provider that fails, or that comes back with a status
\* that is not OK or with a body that cannot be read, counts as no price from
\* that provider: after the first
\* provider the call goes on to the second, after the second it returns the
\* quote without a price. A cache write that fails leaves the returned quote
\* what the providers gave. The call rejects in none of these cases: only a
\* failing select makes it reject.
C21_GracefulDegradation ==
  \A i \in Started :
    /\ "birdeye" \in lookups[i].errors => lookups[i].birdeyePrice = None
    /\ "dexscreener" \in lookups[i].errors => lookups[i].dexPrice = None
    /\ HasAsked(lookups[i], "birdeye") /\ lookups[i].birdeyePrice = None
         /\ lookups[i].pc # "birdeyeJson"
       => lookups[i].pc = "dexscreener" \/ HasAsked(lookups[i], "dexscreener")
    /\ HasAsked(lookups[i], "dexscreener") /\ lookups[i].dexPrice = None
         /\ lookups[i].pc # "dexscreenerJson"
       => lookups[i].pc = "done" /\ lookups[i].result = PriceResult(None, "none", FALSE)
    /\ "insert" \in lookups[i].errors
       => /\ lookups[i].pc = "done"
          /\ lookups[i].stored = None
          /\ lookups[i].result = QuoteFound(lookups[i])
    /\ lookups[i].pc = "threw" => lookups[i].errors = {"select"}

\* one call met an error in the first provider and an error in the cache
\* write and returned the second provider's price; another met an error in
\* the second provider and returned the quote without a price
C21_Witness ==
  \E i, j \in Started :
    /\ lookups[i].errors = {"birdeye", "insert"}
    /\ lookups[i].pc = "done"
    /\ lookups[i].dexPrice # None
    /\ lookups[i].result = PriceResult(NumberOf(lookups[i].dexPrice), "dexscreener", FALSE)
    /\ "dexscreener" \in lookups[j].errors
    /\ lookups[j].pc = "done"
    /\ lookups[j].result = PriceResult(None, "none", FALSE)

\* the addresses of a list and the number of lookups a call started for one
AddressesOf(list) == {list[k] : k \in 1..Len(list)}

CallsFor(b, address) == Cardinality({k \in 1..Len(b.calls) : b.calls[k] = address})

\* the lookups that returned
ReturnedLookups == {i \in DOMAIN lookups : lookups[i].pc = "done"}

\* the one lookup that answered for the address answered with the quote
OwnQuote(address, price) ==
  /\ \E i \in ReturnedLookups :
       lookups[i].token = address /\ lookups[i].result = price
  /\ Cardinality({i \in ReturnedLookups : lookups[i].token = address}) = 1

\* C22: getTokenPrices never starts a second lookup for an address, however
\* often the list names it; when it returns, it has started exactly one
\* lookup for every distinct address of the list and for nothing else, the
\* keys of the map are exactly the distinct addresses of the list, and every
\* key holds the quote its own lookup answered with, whatever the order in
\* which the lookups of a batch answered.
C22_BatchResolution ==
  /\ \A address \in AddressesOf(batch.tokenAddresses) : CallsFor(batch, address) <= 1
  /\ batch.pc = "done"
     => /\ \A address \in AddressesOf(batch.tokenAddresses) : CallsFor(batch, address) = 1
        /\ AddressesOf(batch.calls) = AddressesOf(batch.tokenAddresses)
        /\ DOMAIN batch.results = AddressesOf(batch.tokenAddresses)
        /\ \A address \in DOMAIN batch.results :
             OwnQuote(address, batch.results[address])

\* the first lookup started was not the first to answer: it met an answer
\* in the table that a lookup started after it had left there
FirstNotFirst ==
  \E i \in DOMAIN lookups : i > 1 /\ lookups[i].stored # None
                              /\ lookups[1].seen >= lookups[i].stored.id

\* a call returned for a list that names its addresses twice and fills more
\* than one batch; the first lookup started was not the first to answer, and
\* the map holds quotes with and without a price
C22_Witness ==
  /\ batch.pc = "done"
  /\ Len(batch.tokenAddresses) > Cardinality(AddressesOf(batch.tokenAddresses))
  /\ Cardinality(AddressesOf(batch.tokenAddresses)) > batchSize
  /\ FirstNotFirst
  /\ \E a, b \in DOMAIN batch.results :
       batch.results[a].priceUsd = None /\ batch.results[b].priceUsd # None

\* a response that carries no rate to use
Unusable(response) == response.kind # "ok" \/ ~IsTruthy(response.value)

\* C23: a run over a list that is not empty makes exactly one request for the
\* USD-to-IDR rate, the empty run none, and no run a second one; when the
\* request fails, comes back with a status that is not OK, or carries no rate,
\* the rate of the run is 15500; every result reports the rate of the run, and
\* its values in IDR are its values in USD times that rate.
C23_FxRate ==
  /\ Len(rateResponses) <= 1
  /\ Len(transactions) = 0 => Len(rateResponses) = 0
  /\ Len(transactions) > 0 /\ pc # "start" => Len(rateResponses) = 1
  /\ Len(rateResponses) = 1 /\ Unusable(rateResponses[1]) /\ pc # "rate"
     => usdIdrRate = FromInt(15500)
  /\ \A k \in 1..Len(results) :
       /\ results[k].usdIdrRate = usdIdrRate
       /\ results[k].transactionValueIdr = FMul(results[k].transactionValueUsd, usdIdrRate)
       /\ results[k].gainLossIdr = FMul(results[k].gainLossUsd, usdIdrRate)

\* a run whose request for the rate failed has returned results for several
\* records
C23_Witness ==
  /\ pc = "done"
  /\ rateResponses = <<Failed>>
  /\ Len(results) >= 3
  /\ \A k \in 1..Len(results) : results[k].usdIdrRate = FromInt(15500)

\* the input list has a record with an amount below zero
HasNegativeAmount ==
  \E k \in 1..Len(transactions) :
    transactions[k].fromAmount.neg \/ transactions[k].toAmount.neg

\* the lots of every queue of the ledger
AllLots(ledger) ==
  UNION { {ledger[token][k] : k \in 1..Len(ledger[token])} : token \in DOMAIN ledger }

\* C24: a run whose input has a record with a negative amount handles no
\* record and returns no summary; no queue ever holds a lot with a negative
\* amount.
C24_NegativeAmountFails ==
  /\ HasNegativeAmount => Len(results) = 0 /\ summary = None
  /\ \A lot \in AllLots(tokenLots) : FLe(FZero, lot.amount)

\* C25: no step of a run changes the list the caller gave: it holds the same
\* records, with the same field values, in the same order, from the call to
\* the return.
C25_InputNotMutated == [][transactions' = transactions]_vars

\* a run has returned for a list that was not in the order of its timestamps:
\* the sorted copy differs from the list, which has a sale in it
C25_Witness ==
  /\ pc = "done"
  /\ Len(transactions) >= 3
  /\ sortedTransactions # transactions
  /\ \E k \in 1..Len(results) : results[k].type = "sell"

\* the swaps of a wallet made within the year
SwapsOfYear(wallet) ==
  {k \in 1..Total(wallet) : YearStart <= TimestampOf(wallet, k)
                            /\ TimestampOf(wallet, k) <= YearEnd}

\* the last page that arrived is empty, or its oldest swap was made before
\* the start of the year
LastPageEnds(f) ==
  /\ Len(f.pages) > 0
  /\ \/ Len(f.pages[Len(f.pages)]) = 0
     \/ TimestampOf(f.wallet, f.pages[Len(f.pages)][Len(f.pages[Len(f.pages)])])
          < YearStart

\* C26: fetchTransactions asks for the first page without a cursor and for
\* every further page with the last signature of the page before; it stops
\* asking only when a page is empty or the oldest swap of a page was made
\* before the start of the year; when it returns, it has retrieved every swap
\* of the wallet made within the year.
C26_CompleteHistory ==
  /\ \A j \in 1..Len(helius.cursors) :
       helius.cursors[j] = IF j = 1 THEN 0
                           ELSE helius.pages[j - 1][Len(helius.pages[j - 1])]
  /\ helius.pc \in {"insert", "done"} => LastPageEnds(helius)
  /\ helius.pc = "done"
     => AddressesOf(helius.parsedTransactions)
          = {k \in SwapsOfYear(helius.wallet) : parseSwapTransaction(helius.wallet, k) # None}

\* every lot of every queue has an amount above zero
NoEmptyLot(ledger) ==
  \A lot \in AllLots(ledger) : FGt(lot.amount, FZero)

\* C27: in a run whose input has no negative amount, every lot of the ledger
\* has an amount of at least zero and no queue holds a lot whose amount is
\* zero, after every record handled and in the ledger being built.
C27_LotAmounts ==
  ~HasNegativeAmount =>
    /\ NoEmptyLot(tokenLots)
    /\ \A k \in 1..Handled : NoEmptyLot(LedgerAfter(k))

\* every queue of the ledger holds its lots in ascending order of the time
\* they were acquired
QueuesAscending(ledger) == \A token \in DOMAIN ledger : Ascending(ledger[token])

\* the queue without its first n lots
DropHead(q, n) == SubSeq(q, n + 1, Len(q))

\* one lot more, at the tail, behind the lots there were
AppendedAtTail(q, after) ==
  Len(after) = Len(q) + 1 /\ SubSeq(after, 1, Len(q)) = q

\* the lots behind the first are the same; the first is the same lot, with an
\* amount and cost bases that are no larger
HeadReduced(q, after) ==
  /\ Len(after) = Len(q)
  /\ Len(q) > 0 =>
       /\ Tail(after) = Tail(q)
       /\ after[1].timestamp = q[1].timestamp
       /\ FLe(after[1].amount, q[1].amount)
       /\ FLe(after[1].costBasisUsd, q[1].costBasisUsd)

\* lots were taken from the head only: some first lots are gone and the lot
\* now at the head may be reduced
TakenFromHead(q, after) ==
  \E n \in 0..Len(q) : HeadReduced(DropHead(q, n), after)

C28_At(k, r, token) ==
  IF Consumes(r) /\ token = r.fromToken
  THEN TakenFromHead(QueueBefore(k, token), QueueAfter(k, token))
  ELSE IF ~IsDisposal(r) /\ token = r.toToken
       THEN AppendedAtTail(QueueBefore(k, token), QueueAfter(k, token))
       ELSE QueueAfter(k, token) = QueueBefore(k, token)

\* C28: the queue of every token is in ascending order of acquisition time in
\* every state; a record changes a queue only by appending one lot at its
\* tail or by removing lots from its head and reducing the lot then at the
\* head, so the lots that stay keep their relative order.
C28_QueueOrder ==
  /\ QueuesAscending(tokenLots)
  /\ \A k \in 1..Handled :
       /\ QueuesAscending(LedgerAfter(k))
       /\ \A token \in DOMAIN LedgerBefore(k) \cup DOMAIN LedgerAfter(k) :
            C28_At(k, results[k], token)

\* a lot was appended behind a lot of the same token bought earlier; one later
\* sale reduced the lot at the head and left the second as it was, another
\* removed the lot at the head and left the second alone in the queue
C28_Witness ==
  \E j, k, h \in 1..Handled : \E token \in DOMAIN LedgerAfter(j) :
    /\ j < k /\ k < h
    /\ Len(QueueBefore(j, token)) = 1
    /\ Len(QueueAfter(j, token)) = 2
    /\ Len(QueueAfter(k, token)) = 2
    /\ QueueAfter(k, token)[2] = QueueBefore(k, token)[2]
    /\ FGt(QueueBefore(k, token)[1].amount, QueueAfter(k, token)[1].amount)
    /\ Len(QueueBefore(h, token)) = 2
    /\ QueueAfter(h, token) = <<QueueBefore(h, token)[2]>>

\* the queue as it would be had no purchase of amount zero been recorded
WithoutEmptyLots(q) == SelectSeq(q, LAMBDA lot : FCmp(lot.amount, FZero) # 0)

\* the walk of record r over the queue of its from token without the lots of
\* amount zero
WalkWithoutEmpty(k, r) ==
  ConsumeLots(WithoutEmptyLots(QueueBefore(k, r.fromToken)), r.fromAmount, FZero, FZero)

C29_At(k, r, used) ==
  /\ IsAcquisition(r) /\ FCmp(r.toAmount, FZero) = 0 => r.type = "buy"
  /\ Consumes(r) => /\ r.costBasisUsd = used.totalCostUsd
                    /\ r.costBasisIdr = used.totalCostIdr
  /\ IsDisposal(r) =>
       r.gainLossUsd = FSub(FMul(r.fromAmount, r.fromPriceUsd), used.totalCostUsd)

\* C29: a purchase of amount zero is handled as a purchase, without an error,
\* and every later record that draws on the queue of that token reports the
\* cost basis and the gain it would report had the purchase not been recorded:
\* those of the walk over the queue without lots of amount zero.
C29_ZeroAcquisition ==
  ~HasNegativeAmount =>
    \A k \in 1..Handled : C29_At(k, results[k], WalkWithoutEmpty(k, results[k]))

\* the call returned a price taken from the table
IsCacheHit(l) == l.pc = "done" /\ l.result.cached

\* the table held, when the call selected, a priced row of the call's token
\* with a timestamp at most three hours before or after the call's time
PricedRowInWindow(l) ==
  \E row \in RowsSeen(l) : WithinTolerance(row, l) /\ row.priceUsd # None

C30_At(l) ==
  /\ IsMajor(l) /\ HasAsked(l, "select") /\ l.pc # "threw"
       => /\ IsCacheHit(l) <=> PricedRowInWindow(l)
          /\ IsCacheHit(l) => /\ l.found \in RowsSeen(l)
                              /\ l.found.tokenAddress = l.token
                              /\ WithinTolerance(l.found, l)
  /\ ~IsMajor(l) => ~HasAsked(l, "select") /\ ~IsCacheHit(l)
  /\ ~HasAsked(l, "select") => ~IsCacheHit(l)

\* C30: a call for a major token at time t whose select came back is a cache
\* hit exactly when the table held a priced row of that token with a
\* timestamp in [t - 3h, t + 3h], both ends included; the row of a hit is of
\* the call's token and within that window, and a call for a token that is
\* not major is never a hit.
C30_ToleranceWindow == \A i \in Started : C30_At(lookups[i])

\* a call was a hit on a row stored by another call for a time exactly three
\* hours after its own: the upper end of the window
C30_Witness ==
  \E i, j \in Started :
    /\ lookups[i].stored # None
    /\ IsCacheHit(lookups[j])
    /\ lookups[j].found = lookups[i].stored
    /\ lookups[i].stored.timestamp = lookups[j].timestamp + CACHE_DURATION_MS

\* the number of requests of kind op the call has made
TimesAsked(l, op) == Cardinality({k \in 1..Len(l.asked) : l.asked[k] = op})

C31_At(l) ==
  /\ TimesAsked(l, "birdeye") <= 1
  /\ TimesAsked(l, "dexscreener") <= 1
  /\ \A k \in 1..(Len(l.asked) - 1) :
       /\ l.asked[k] = "birdeye" => l.asked[k + 1] \in {"dexscreener", "insert"}
       /\ l.asked[k] = "dexscreener" => l.asked[k + 1] = "insert"

\* C31: within one call of getTokenPrice the primary provider is asked at
\* most once and the secondary provider at most once; after a request that
\* failed or gave no price the same provider is not asked again: the request
\* after one to the primary provider goes to the secondary provider or to the
\* cache write, the one after the secondary provider to the cache write.
C31_SingleAttempt == \A i \in Started : C31_At(lookups[i])

\* a call has returned without a price after the primary provider's request
\* failed and the secondary provider answered with a status that is not OK:
\* two requests were made
C31_Witness ==
  \E i \in Started :
    /\ lookups[i].pc = "done"
    /\ lookups[i].errors = {"birdeye"}
    /\ lookups[i].dexPrice = None
    /\ "dexscreener" \notin lookups[i].errors
    /\ lookups[i].asked = <<"birdeye", "dexscreener">>
    /\ lookups[i].result.source = "none"

\* the pairs of the body the call received, none when the request failed, the
\* status was not OK or the body had no list of pairs
PairsReceived(call) ==
  IF call.response.kind # "ok" THEN <<>>
  ELSE IF call.response.value = None THEN <<>>
  ELSE call.response.value.pairs

\* no pair of the list reports more liquidity than pair k does
MostLiquid(pairs, k) ==
  \A j \in 1..Len(pairs) : LiquidityOrZero(pairs[j]) <= LiquidityOrZero(pairs[k])

\* pair k has a price that is a number other than 0
IsPriced(pair) == PriceOrNull(pair) # None

C32_At(call, pairs) ==
  /\ Len(pairs) = 0 => call.result = None
  /\ call.result # None
       => \E k \in 1..Len(pairs) : /\ MostLiquid(pairs, k)
                                   /\ IsPriced(pairs[k])
                                   /\ call.result = NumberOf(pairs[k].priceUsd)
  /\ /\ Len(pairs) > 0
     /\ \A k \in 1..Len(pairs) : MostLiquid(pairs, k) => IsPriced(pairs[k])
     => call.result # None

\* C32: the price fetchDexScreenerPrice returns is the price of a pair that
\* no pair of the response exceeds in reported liquidity, a pair without
\* reported liquidity counting as 0; the result is null when the response has
\* no pair, and it is a price whenever every most liquid pair carries one.
C32_MostLiquidPair ==
  pairsCall.pc = "done" => C32_At(pairsCall, PairsReceived(pairsCall))

\* a call has returned the price of the most liquid pair, which was neither
\* the first nor the last of the three pairs of the response, one of them
\* without reported liquidity
C32_Witness ==
  /\ pairsCall.pc = "done"
  /\ pairsCall.result # None
  /\ Len(PairsReceived(pairsCall)) = 3
  /\ pairsCall.result = NumberOf(PairsReceived(pairsCall)[2].priceUsd)
  /\ PairsReceived(pairsCall)[3].liquidity = None
  /\ LiquidityOrZero(PairsReceived(pairsCall)[1]) < LiquidityOrZero(PairsReceived(pairsCall)[2])

\* the batches a call over n distinct addresses makes
BatchesOf(n) == (n + batchSize - 1) \div batchSize

\* the lookups started that have not answered
InFlight(b) == b.pending

C33_Running(b) ==
  /\ Cardinality(InFlight(b)) <= batchSize
  /\ b.pc # "threw" => Len(b.calls) - Cardinality(ReturnedLookups) = Cardinality(InFlight(b))
  /\ \A k \in InFlight(b) : k > b.i /\ k <= b.i + batchSize
  /\ b.pc = "pause" => InFlight(b) = {} /\ b.i + batchSize < Len(b.uniqueAddresses)
  /\ b.pc = "batch" => /\ InFlight(b) = {}
                       /\ Len(b.calls) = b.i /\ Cardinality(ReturnedLookups) = b.i
                       /\ b.pauses * batchSize = b.i
  /\ b.pc = "await" => /\ Cardinality(ReturnedLookups) >= b.i
                       /\ b.pauses * batchSize = b.i
  /\ b.pc = "done" => /\ InFlight(b) = {}
                      /\ Len(b.uniqueAddresses) > 0
                           => b.pauses = BatchesOf(Len(b.uniqueAddresses)) - 1
                      /\ Len(b.uniqueAddresses) = 0 => b.pauses = 0

\* C33: within one call of getTokenPrices at most batchSize lookups are
\* started and unanswered at any moment; when the lookups of a batch start,
\* every lookup of the batches before has answered and one pause has elapsed
\* for each of those batches; a pause is made only when addresses remain, so
\* a call that returns has paused once less than it made batches.
C33_BoundedBatches == C33_Running(batch)

\* the five lookups of the second-to-last batch have answered, the pause has
\* elapsed, and the lookups of the last batch are all unanswered
C33_Witness ==
  /\ batch.pc = "await"
  /\ batch.i = batchSize
  /\ batch.pauses = 1
  /\ Cardinality(ReturnedLookups) = batchSize
  /\ Cardinality(batch.pending) = Len(batch.uniqueAddresses) - batchSize
  /\ batch.pending # {}

\* the totals of a summary, without its list of results
TotalsOf(s) == [field \in DOMAIN s \ {"transactions"} |-> s[field]]

\* the results of a summary, whatever their place in the list
ResultsOf(s) == {s.transactions[k] : k \in 1..Len(s.transactions)}

\* C34: a second run over the same records in another order, answered the
\* same rate and the same prices, returns the same totals and, for every
\* record, the same result as the first, records that share a timestamp
\* included.
C34_OrderIndependence ==
  previous # None /\ pc = "done"
    => /\ TotalsOf(summary) = TotalsOf(previous.summary)
       /\ ResultsOf(summary) = ResultsOf(previous.summary)

\* every lot of the ledger names the token whose queue it is in
LotsNameTheirQueue(ledger) ==
  \A token \in DOMAIN ledger : \A k \in 1..Len(ledger[token]) :
    ledger[token][k].tokenAddress = token

\* no base token has a lot in the ledger
NoBaseLots(ledger) ==
  \A token \in DOMAIN ledger : IsStableOrSol(token) => Len(ledger[token]) = 0

\* C35 as stated: in every ledger state no queue holds a lot of a base token
\* (SOL, USDC, USDT), and every lot in the queue of a token names that token.
C35_NoBaseTokenLots ==
  /\ NoBaseLots(tokenLots) /\ LotsNameTheirQueue(tokenLots)
  /\ \A k \in 1..Handled : NoBaseLots(LedgerAfter(k)) /\ LotsNameTheirQueue(LedgerAfter(k))

\* the lot was opened by one of the first n records, one with two base legs,
\* for the token it received
OpenedByBothBase(lot, n) ==
  \E j \in 1..n : /\ IsBothBase(results[j])
                  /\ results[j].toToken = lot.tokenAddress
                  /\ results[j].timestamp = lot.timestamp
                  /\ QueueAfter(j, lot.tokenAddress)
                       = Append(QueueBefore(j, lot.tokenAddress), lot)

\* the lots of base tokens in the ledger after record k are those opened by
\* records with two base legs
BaseLotsFromBothBase(k) ==
  \A token \in DOMAIN LedgerAfter(k) :
    IsStableOrSol(token)
      => \A i \in 1..Len(QueueAfter(k, token)) :
           OpenedByBothBase(QueueAfter(k, token)[i], k)

\* C35: in every ledger state every lot in the queue of a token names that
\* token; a record with at most one base leg opens no lot for a base token,
\* and the lots a base token has are those opened for the to token of
\* records whose two legs are base tokens.
C35_LotsByToken ==
  /\ LotsNameTheirQueue(tokenLots)
  /\ \A k \in 1..Handled :
       /\ LotsNameTheirQueue(LedgerAfter(k))
       /\ BaseLotsFromBothBase(k)
       /\ ~IsBothBase(results[k])
            => \A token \in DOMAIN LedgerAfter(k) :
                 IsStableOrSol(token) => QueueAfter(k, token) = QueueBefore(k, token)

\* a run has returned with a lot of a base token in the ledger, opened by a
\* swap of one base token for another, next to a lot of a token that is no
\* base token
C35_Witness ==
  /\ pc = "done"
  /\ \E token \in DOMAIN tokenLots :
       /\ IsStableOrSol(token)
       /\ Len(tokenLots[token]) > 0
       /\ OpenedByBothBase(tokenLots[token][1], Handled)
  /\ \E token \in DOMAIN tokenLots :
       ~IsStableOrSol(token) /\ Len(tokenLots[token]) > 0

\* the call went on after its select: it is at a provider, at the cache write
\* or has returned a quote
WentOn(l) ==
  \/ l.pc \in {"birdeye", "birdeyeJson", "dexscreener", "dexscreenerJson", "save"}
  \/ l.pc = "done" /\ l.result # None

\* C36: a call of getTokenPrice whose select on the price table raised an
\* error goes on as after a miss: it does not reject, it asks the providers
\* and it returns a quote.
C36_ReadFailureIsMiss ==
  \A i \in Started :
    "select" \in lookups[i].errors
      => /\ lookups[i].pc # "threw"
         /\ WentOn(lookups[i])
         /\ lookups[i].pc = "done"
              => HasAsked(lookups[i], "birdeye") \/ HasAsked(lookups[i], "dexscreener")

\* the cost basis the lot of r was created with, USD or local
OpenedBasis(r, field) ==
  IF field = "costBasisUsd" THEN OpenedBasisUsd(r) ELSE OpenedBasisIdr(r)

RECURSIVE ExactBases(_, _)
\* the sum of the cost bases of the lots of a queue
ExactBases(q, field) ==
  IF Len(q) = 0 THEN ExactZero
  ELSE ExactAdd(ExactOf(q[1][field]), ExactBases(Tail(q), field))

RECURSIVE ExactConsumedBases(_, _, _)
\* the cost bases the first k records report as consumed from the queue of
\* token
ExactConsumedBases(k, token, field) ==
  IF k = 0 THEN ExactZero
  ELSE ExactAdd(ExactConsumedBases(k - 1, token, field),
                IF Consumes(results[k]) /\ results[k].fromToken = token
                THEN ExactOf(results[k][field])
                ELSE ExactZero)

RECURSIVE ExactOpenedBases(_, _, _)
\* the cost bases of the lots the first k records opened for token
ExactOpenedBases(k, token, field) ==
  IF k = 0 THEN ExactZero
  ELSE ExactAdd(ExactOpenedBases(k - 1, token, field),
                IF Opens(results[k], token) THEN ExactOf(OpenedBasis(results[k], field))
                ELSE ExactZero)

C37_At(token, field) ==
  ExactCmp(ExactAdd(ExactBases(LotsOf(tokenLots, token), field),
                    ExactConsumedBases(Handled, token, field)),
           ExactOpenedBases(Handled, token, field)) = 0

\* C37: after any sequence of records, for every token the cost basis that
\* remains in its queue plus the cost basis the disposals of the token report
\* as consumed equals the cost basis of all lots ever opened for it, in USD
\* and in local currency.
C37_BasisConservation ==
  \A token \in TokensSeen :
    C37_At(token, "costBasisUsd") /\ C37_At(token, "costBasisIdr")

\* the tokens that have a queue after record k are those that had one before
\* and the tokens of toks
QueuesAfter(k, toks) == DOMAIN LedgerAfter(k) = DOMAIN LedgerBefore(k) \cup toks

C38_At(k, r) ==
  /\ IsAcquisition(r)
       => /\ AppendedAtTail(QueueBefore(k, r.toToken), QueueAfter(k, r.toToken))
          /\ OtherQueuesSame(k, {r.toToken})
          /\ QueuesAfter(k, {r.toToken})
  /\ IsDisposal(r)
       => /\ OtherQueuesSame(k, {r.fromToken})
          /\ QueuesAfter(k, {})
  /\ IsTokenToToken(r)
       => /\ OtherQueuesSame(k, {r.fromToken, r.toToken})
          /\ QueuesAfter(k, {r.toToken})

\* C38: a purchase changes nothing in the ledger but the queue of the token
\* received, to which it appends one lot; a sale into a base token changes no
\* queue but that of the token sold and adds no queue; a swap of one token
\* for another changes only the queues of its two tokens.
C38_LedgerFrame ==
  /\ Len(history) = Handled
  /\ pc \in {"loop", "done"} /\ Len(transactions) > 0 => tokenLots = LedgerBefore(Handled + 1)
  /\ \A k \in 1..Handled : C38_At(k, results[k])

\* the queues of two tokens held lots when a sale of one of them was handled:
\* the queue of the token sold changed, the other did not; a purchase and a
\* swap were handled before
C38_Witness ==
  \E k \in 1..Handled : \E other \in DOMAIN LedgerBefore(k) :
    /\ IsDisposal(results[k])
    /\ other # results[k].fromToken
    /\ Len(QueueBefore(k, other)) > 0
    /\ QueueAfter(k, other) = QueueBefore(k, other)
    /\ QueueAfter(k, results[k].fromToken) # QueueBefore(k, results[k].fromToken)
    /\ \E i, j \in 1..(k - 1) : IsAcquisition(results[i]) /\ IsTokenToToken(results[j])

\* the counts of a summary and its amounts
CountFields == {"totalTransactions", "totalBuys", "totalSells"}
AmountFields ==
  {"totalBuyValueIdr", "totalSellValueIdr", "totalGainIdr", "totalLossIdr",
   "netGainLossIdr", "totalPphTax", "totalPpnTax", "totalTax"}

\* every count and every amount of the summary is 0 and it lists no result
AllZero(s) ==
  /\ DOMAIN s = CountFields \cup AmountFields \cup {"transactions"}
  /\ \A field \in CountFields : s[field] = 0
  /\ \A field \in AmountFields : s[field] = FZero
  /\ s.transactions = <<>>

\* nothing was asked of the rate service, of the price service or of the
\* price table, and no record was handled
NothingAsked ==
  /\ rateResponses = <<>> /\ usdIdrRate = None
  /\ prices = <<>>
  /\ batch = IdleBatch /\ lookups = NoLookups /\ cache = <<>>
  /\ sortedTransactions = <<>> /\ results = <<>> /\ tokenLots = <<>>

\* C39: a run over the empty list returns, as its only step, a summary whose
\* counts and totals are all 0 and whose list of results is empty; it makes no
\* request for the USD-to-IDR rate, looks up no price and neither reads nor
\* writes the price table.
C39_EmptyInput ==
  Len(transactions) = 0
    => /\ pc \in {"start", "done"}
       /\ NothingAsked
       /\ pc = "start" => summary = None
       /\ pc = "done" => AllZero(summary)

\* the run over the empty list has returned
C39_Witness ==
  /\ Len(transactions) = 0
  /\ pc = "done"
  /\ summary # None
  /\ summary.totalTransactions = 0
  /\ rateResponses = <<>>

====
